---- MODULE Spec2Model ----
(***************************************************************************)
(* Model of the tool-using agent runtime of brain-off:                     *)
(*   src/src/core/agent/memory_driven_agent.py  (MemoryDrivenAgent)        *)
(*   src/src/core/skills/tool_registry.py       (ToolRegistry)             *)
(* The state is the state of one session and of the _agent_loop invocation *)
(* running on it: the loop's local variables, the message list handed to   *)
(* the LLM, the session history, and the logs kept by the two external     *)
(* collaborators (the LLM client and the tool registry).                   *)
(***************************************************************************)
EXTENDS Integers, Sequences, FiniteSets, TLC

\* self.max_iterations (20 in the source), scaled down.
max_iterations == 2

\* self.max_tool_calls_per_turn (14 in the source), scaled down as the tests do.
max_tool_calls_per_turn == 3

\* self.loop_review_repeat_threshold
loop_review_repeat_threshold == 3

\* self.max_tool_result_chars (40000 in the source), scaled down.
max_tool_result_chars == 300

\* Number of process_message turns run on the one session (SessionSpec).
MaxTurns == 2

(***************************************************************************)
(* Python values.                                                          *)
(***************************************************************************)

\* Python's None where a string is expected (message content, tool_call_id).
None == "<None>"

\* exec_info["signature"] = None
NoSignature == <<>>

\* A str is a list of chunks; the empty str is the empty list.
EmptyStr == <<>>

\* accumulated_text += content
StrConcat(text, s) == text \o s

(***************************************************************************)
(* JSON.  The text of function.arguments is a list of key/value pairs as   *)
(* written, or text that is no JSON, or JSON that is no object.            *)
(***************************************************************************)

\* Order of the keys under sort_keys=True.
KeyOrder == <<"height", "width", "x", "y">>

ArgsXY == [valid |-> TRUE, object |-> TRUE, pairs |-> << <<"x", 0>>, <<"y", 0>> >>]

ArgsYX == [valid |-> TRUE, object |-> TRUE, pairs |-> << <<"y", 0>>, <<"x", 0>> >>]

\* e.g. a truncated '{"x": 0, ' : json.loads raises.
ArgsBad == [valid |-> FALSE, object |-> FALSE, pairs |-> << >>]

\* e.g. '[]' or 'null': valid JSON that is not a mapping.
ArgsList == [valid |-> TRUE, object |-> FALSE, pairs |-> << >>]

\* Index of the first pair of `pairs` whose key is k.
FirstIndex(pairs, k) == CHOOSE i \in DOMAIN pairs :
    /\ pairs[i][1] = k
    /\ \A j \in DOMAIN pairs : pairs[j][1] = k => i <= j

\* Index of the last pair of `pairs` whose key is k.
LastIndex(pairs, k) == CHOOSE i \in DOMAIN pairs :
    /\ pairs[i][1] = k
    /\ \A j \in DOMAIN pairs : pairs[j][1] = k => j <= i

\* json.loads on valid text: a dict keeps each key at its first position with
\* its last value; items is the dict in insertion order.
json_loads(text) ==
    LET firsts == SelectSeq([i \in DOMAIN text.pairs |-> i],
                            LAMBDA i : FirstIndex(text.pairs, text.pairs[i][1]) = i)
    IN [object |-> text.object,
        items  |-> [n \in DOMAIN firsts |->
                      << text.pairs[firsts[n]][1],
                         text.pairs[LastIndex(text.pairs, text.pairs[firsts[n]][1])][2] >>]]

\* The keys of a parsed dict.
DictKeys(value) == {value.items[i][1] : i \in DOMAIN value.items}

\* value[k]
DictGet(value, k) == value.items[FirstIndex(value.items, k)][2]

\* json.dumps(arguments, ensure_ascii=False): items in insertion order.
json_dumps(value) == [object |-> value.object, items |-> value.items]

\* json.dumps(arguments, ensure_ascii=False, sort_keys=True).
json_dumps_sort_keys(value) ==
    LET ks == SelectSeq(KeyOrder, LAMBDA k : k \in DictKeys(value))
    IN [object |-> value.object,
        items  |-> [n \in DOMAIN ks |-> << ks[n], DictGet(value, ks[n]) >>]]

(***************************************************************************)
(* Python values of tool results.  Every value is a record with its type   *)
(* in t; a str is its text and its length, a list the number of its        *)
(* entries and the serialized length of each, a dict the function from its *)
(* keys to its values.                                                     *)
(***************************************************************************)

PyNone == [t |-> "none"]

PyBool(b) == [t |-> "bool", b |-> b]

PyInt(n) == [t |-> "int", n |-> n]

PyStr(text, chars) == [t |-> "str", text |-> text, chars |-> chars]

PyList(len, each) == [t |-> "list", len |-> len, each |-> each]

\* A value json.dumps cannot serialize (bytes, a datetime, a set, a Path).
PyObject == [t |-> "object"]

PyDict(items) == [t |-> "dict", items |-> items]

\* isinstance(v, dict), isinstance(v, str), isinstance(v, list)
IsDict(v) == v.t = "dict"

IsStr(v) == v.t = "str"

IsList(v) == v.t = "list"

\* `k in d`
PyHas(d, k) == IsDict(d) /\ k \in DOMAIN d.items

\* d.get(k)
PyGet(d, k) == IF PyHas(d, k) THEN d.items[k] ELSE PyNone

\* d.get(k, default)
PyGetDefault(d, k, default) == IF PyHas(d, k) THEN d.items[k] ELSE default

\* d[k] = v on a copy of d
PySet(d, k, v) ==
    PyDict([j \in DOMAIN d.items \cup {k} |-> IF j = k THEN v ELSE d.items[j]])

\* d.pop(k, None) on a copy of d
PyPop(d, k) == PyDict([j \in DOMAIN d.items \ {k} |-> d.items[j]])

\* bool(v)
Truthy(v) ==
    CASE v.t = "none" -> FALSE
      [] v.t = "bool" -> v.b
      [] v.t = "int" -> v.n # 0
      [] v.t = "str" -> v.chars > 0
      [] v.t = "list" -> v.len > 0
      [] v.t = "dict" -> DOMAIN v.items # {}
      [] OTHER -> TRUE

\* len(k) of the keys that occur in tool results.
KeyChars(k) ==
    CASE k = "success" -> 7
      [] k = "data" -> 4
      [] k = "error" -> 5
      [] k = "note" -> 4
      [] k = "value" -> 5
      [] k = "texts" -> 5
      [] k = "text_count" -> 10
      [] k = "image_path" -> 10
      [] k = "key_content" -> 11
      [] k = "image_base64" -> 12
      [] k = "_truncated" -> 10
      [] k = "_original_chars" -> 15
      [] k = "texts_truncated" -> 15
      [] k = "image_base64_chars" -> 18
      [] k = "image_base64_omitted" -> 20

\* len(str(n)) for n >= 0
RECURSIVE Digits(_)
Digits(n) == IF n < 10 THEN 1 ELSE 1 + Digits(n \div 10)

\* Whether json.dumps(v) returns: it raises TypeError on a value it cannot
\* serialize, at any depth.
RECURSIVE Serializable(_)
Serializable(v) ==
    CASE v.t = "object" -> FALSE
      [] v.t = "dict" -> \A k \in DOMAIN v.items : Serializable(v.items[k])
      [] OTHER -> TRUE

\* len(json.dumps(v, ensure_ascii=False)) with the default separators
\* ", " and ": ".
RECURSIVE JsonChars(_)
RECURSIVE ItemsChars(_, _)
JsonChars(v) ==
    CASE v.t = "none" -> 4
      [] v.t = "bool" -> IF v.b THEN 4 ELSE 5
      [] v.t = "int" -> Digits(v.n)
      [] v.t = "str" -> v.chars + 2
      [] v.t = "list" -> IF v.len = 0 THEN 2 ELSE 2 + v.len * v.each + 2 * (v.len - 1)
      [] v.t = "dict" ->
           IF DOMAIN v.items = {} THEN 2
           ELSE 2 + ItemsChars(v, DOMAIN v.items) + 2 * (Cardinality(DOMAIN v.items) - 1)
      [] OTHER -> 0

ItemsChars(d, keys) ==
    IF keys = {} THEN 0
    ELSE LET k == CHOOSE x \in keys : TRUE
         IN (KeyChars(k) + 2) + 2 + JsonChars(d.items[k]) + ItemsChars(d, keys \ {k})

\* {"success": True, "data": data} and {"success": False, "error": error}
SuccessEnvelope(data) == PyDict(("success" :> PyBool(TRUE)) @@ ("data" :> data))

FailureEnvelope(error) == PyDict(("success" :> PyBool(FALSE)) @@ ("error" :> error))

\* The slot of a message that carries no JSON payload.
NoEnvelope == PyNone

(***************************************************************************)
(* ToolRegistry.                                                           *)
(***************************************************************************)

\* The names in ToolRegistry.tools.
RegisteredTools == {"inspect_region", "get_cad_metadata"}

\* len(tool_name) of the names a call may carry: the registered ones, and
\* two that are not registered, one of them longer than a tool result may be.
NameChars(tool_name) ==
    CASE tool_name = "inspect_region" -> 14
      [] tool_name = "get_cad_metadata" -> 16
      [] tool_name = "no_such_tool" -> 12
      [] tool_name = "no_such_tool_long" -> max_tool_result_chars + 1

\* What the tool function does when called: it returns a value, or raises
\* an exception whose str() is the value.
Returns(value) == [kind |-> "returns", value |-> value]

Raises(message) == [kind |-> "raises", value |-> message]

\* The task is cancelled while the tool function is awaited: the await
\* raises asyncio.CancelledError, which is a BaseException.
Cancelled == [kind |-> "cancelled", value |-> PyStr("cancelled", 0)]

\* `except Exception as e` of execute_tool does not catch what the tool
\* function raised: the exception leaves execute_tool.
Propagates(behaviour) == behaviour.kind = "cancelled"

\* ToolRegistry.execute_tool(tool_name, db, **kwargs), the tool function
\* doing what `behaviour` says.
execute_tool(tool_name, behaviour) ==
    IF tool_name \notin RegisteredTools
    THEN PyDict("error" :> PyStr("Unknown tool", 14 + NameChars(tool_name)))
    ELSE IF behaviour.kind = "raises"
    THEN FailureEnvelope(behaviour.value)
    ELSE LET result == behaviour.value
         IN IF /\ IsDict(result)
               /\ PyHas(result, "success")
               /\ (PyHas(result, "data") \/ PyHas(result, "error"))
            THEN result
            ELSE IF IsDict(result) /\ IsStr(PyGet(result, "error"))
            THEN FailureEnvelope(PyGet(result, "error"))
            ELSE SuccessEnvelope(result)

(***************************************************************************)
(* MemoryDrivenAgent: normalizing and trimming a tool result.              *)
(***************************************************************************)

\* `"success" in data and ("data" in data or "error" in data)`
IsEnvelopeDict(data) ==
    /\ IsDict(data)
    /\ PyHas(data, "success")
    /\ (PyHas(data, "data") \/ PyHas(data, "error"))

\* MemoryDrivenAgent._normalize_tool_result
_normalize_tool_result(result) ==
    IF ~IsDict(result)
    THEN FailureEnvelope(PyStr("invalid tool result", 19))
    ELSE
      LET data == PyGet(result, "data")
      IN IF IsEnvelopeDict(data)
         THEN \* unwrap nested standard envelope
              LET outer_success == Truthy(PyGetDefault(result, "success", PyBool(TRUE)))
                  inner_success == Truthy(PyGet(data, "success"))
                  with_success == PySet(result, "success",
                                        PyBool(outer_success /\ inner_success))
                  with_data == IF PyHas(data, "data")
                               THEN PySet(with_success, "data", PyGet(data, "data"))
                               ELSE PyPop(with_success, "data")
              IN IF Truthy(PyGet(data, "error"))
                 THEN PySet(with_data, "error", PyGet(data, "error"))
                 ELSE with_data
         ELSE IF /\ IsDict(data)
                 /\ IsStr(PyGet(data, "error"))
                 /\ Cardinality(DOMAIN data.items) = 1
                 /\ Truthy(PyGetDefault(result, "success", PyBool(TRUE)))
         THEN \* legacy wrapped error payload
              PyPop(PySet(PySet(result, "success", PyBool(FALSE)),
                          "error", PyGet(data, "error")),
                    "data")
         ELSE result

\* `len(texts) > 20`, `texts[:20]`
TextsLimit == 20

\* The trimmed copy with the texts left as they are.
SanitizeDataKeepsTexts(data) ==
    IF IsStr(PyGet(data, "image_base64")) /\ Truthy(PyGet(data, "image_base64"))
    THEN PySet(PySet(PyPop(data, "image_base64"), "image_base64_omitted", PyBool(TRUE)),
               "image_base64_chars", PyInt(PyGet(data, "image_base64").chars))
    ELSE data

\* The trimmed copy of a result's data dict: image_base64 replaced by its
\* length, key_content.texts cut to its first entries.
SanitizeData(data) ==
    LET image_base64 == PyGet(data, "image_base64")
        without_image ==
            IF IsStr(image_base64) /\ Truthy(image_base64)
            THEN PySet(PySet(PyPop(data, "image_base64"),
                             "image_base64_omitted", PyBool(TRUE)),
                       "image_base64_chars", PyInt(image_base64.chars))
            ELSE data
        key_content == PyGet(without_image, "key_content")
        texts == PyGet(key_content, "texts")
    IN IF IsDict(key_content) /\ IsList(texts) /\ texts.len > TextsLimit
       THEN PySet(without_image, "key_content",
                  PySet(PySet(key_content, "texts", PyList(TextsLimit, texts.each)),
                        "texts_truncated", PyInt(texts.len - TextsLimit)))
       ELSE without_image

\* The keys of data kept in the compact form.
CompactKeys ==
    { "image_path", "thumbnail", "region_info", "entity_summary", "key_content",
      "bounds", "filename", "entity_count", "total_count", "layer_count",
      "image_base64_omitted", "image_base64_chars" }

\* compact_data
CompactData(safe) ==
    LET src == PyGet(safe, "data")
    IN IF IsDict(src)
       THEN PyDict([k \in DOMAIN src.items \cap CompactKeys |-> src.items[k]])
       ELSE PyDict([k \in {} |-> PyNone])

\* {"success": bool(safe.get("success")), "_truncated": True,
\*  "_original_chars": len(serialized)}, with safe's error if it has one.
TruncatedHead(safe, serialized) ==
    LET head == PyDict(("success" :> PyBool(Truthy(PyGet(safe, "success"))))
                       @@ ("_truncated" :> PyBool(TRUE))
                       @@ ("_original_chars" :> PyInt(serialized)))
    IN IF PyHas(safe, "error") THEN PySet(head, "error", PyGet(safe, "error")) ELSE head

\* compact
CompactResult(safe, serialized) ==
    IF Truthy(CompactData(safe))
    THEN PySet(TruncatedHead(safe, serialized), "data", CompactData(safe))
    ELSE TruncatedHead(safe, serialized)

\* minimal: the note "tool result omitted due to size: <n> chars", and the
\* image_path of the data if it has one.
MinimalResult(safe, serialized) ==
    LET note == PyDict("note" :> PyStr("tool result omitted", 33 + Digits(serialized) + 6))
        src == PyGet(safe, "data")
        data == IF IsDict(src) /\ Truthy(PyGet(src, "image_path"))
                THEN PySet(note, "image_path", PyGet(src, "image_path"))
                ELSE note
    IN PySet(TruncatedHead(safe, serialized), "data", data)

\* The result returned when json.dumps(safe) raises.
SerializationFailure(tool_name, result) ==
    PyDict(("success" :> PyBool(Truthy(PyGet(result, "success"))))
           @@ ("error" :> PyGetDefault(result, "error",
                              PyStr("serialization failed", 11 + NameChars(tool_name)))))

\* MemoryDrivenAgent._sanitize_tool_result
_sanitize_tool_result(tool_name, result) ==
    LET normalized == _normalize_tool_result(result)
        data == PyGet(normalized, "data")
        safe == IF IsDict(data) THEN PySet(normalized, "data", SanitizeData(data))
                ELSE normalized
    IN IF ~Serializable(safe) THEN SerializationFailure(tool_name, result)
       ELSE LET serialized == JsonChars(safe)
            IN IF serialized <= max_tool_result_chars THEN safe
               ELSE IF JsonChars(CompactResult(safe, serialized)) <= max_tool_result_chars
               THEN CompactResult(safe, serialized)
               ELSE MinimalResult(safe, serialized)

\* The result appended when json.loads(tool_call.function.arguments) raises.
ParseFailure == FailureEnvelope(PyStr("arguments_parse_failed", 10 + 5))

\* What the tool functions do in the loop's specification: return an
\* envelope whose payload exceeds max_tool_result_chars, or raise.
RegistryOutcomes ==
    { Returns(SuccessEnvelope(PyDict("value" :> PyStr("payload", max_tool_result_chars + 1)))),
      Raises(PyStr("tool_error", 10)) }

(***************************************************************************)
(* Tool calls and LLM responses.                                           *)
(***************************************************************************)

ToolCall(id, name, arguments) ==
    [id |-> id, type |-> "function", name |-> name, arguments |-> arguments]

CallXY == ToolCall("call_a", "inspect_region", ArgsXY)

CallYX == ToolCall("call_b", "inspect_region", ArgsYX)

CallMeta == ToolCall("call_c", "get_cad_metadata", ArgsXY)

CallBad == ToolCall("call_d", "inspect_region", ArgsBad)

CallList == ToolCall("call_e", "inspect_region", ArgsList)

\* The tool_calls lists the LLM answers with in the loop's specification.
LoopBatches ==
    { <<CallXY>>,
      <<CallXY, CallYX>>,
      <<CallBad, CallXY>>,
      <<CallMeta, CallXY>>,
      <<CallYX, CallBad, CallYX>>,
      <<CallList>> }

\* message.content of a response: None or a text.
LoopContents == { <<None>>, <<"text">> }

\* The tool-call batches of the runs followed to their end.
LiveBatches == { << CallXY >>, << CallBad, CallXY >>, << CallList >> }

\* The tool_calls lists and contents of the session's specification.
SessionBatches == { <<CallBad, CallYX>> }

SessionContents == { <<"text">> }

SessionOutcomes == { Returns(SuccessEnvelope(PyDict("value" :> PyStr("payload", 5)))) }

\* What the tool function does in the runs checked for termination: it
\* returns a small payload or raises.
LiveOutcomes ==
    { Returns(SuccessEnvelope(PyDict("value" :> PyStr("payload", 5)))),
      Raises(PyStr("tool_error", 10)) }

\* The `tools` argument of _agent_loop: the schemas of a skill's tool_set,
\* or no schema at all.
ToolLists == { <<"inspect_region", "get_cad_metadata">>, << >> }

SessionToolLists == { <<"inspect_region", "get_cad_metadata">> }

\* `content or ""`
OrEmpty(c) == IF c = <<None>> THEN EmptyStr ELSE c

\* `content if content else None`
OrNone(c) == IF c = EmptyStr THEN <<None>> ELSE c

(***************************************************************************)
(* Messages: the dicts of the list sent to the LLM and the Message objects *)
(* of the session history share one shape.                                 *)
(***************************************************************************)

Message(role, c, calls, call_id, json) ==
    [role |-> role, content |-> c, tool_calls |-> calls,
     tool_call_id |-> call_id, json |-> json]

SystemMessage(c) == Message("system", c, << >>, None, NoEnvelope)

UserMessage(c) == Message("user", c, << >>, None, NoEnvelope)

\* {"role": "tool", "tool_call_id": id, "content": json.dumps(result)}
ToolMessage(id, result) == Message("tool", <<"json">>, << >>, id, result)

RepeatHint(name) == SystemMessage(<<"repeat_hint", name>>)

BudgetHint == SystemMessage(<<"budget_hint">>)

FinalizeOrder == SystemMessage(<<"finalize_order">>)

(***************************************************************************)
(* State.                                                                  *)
(***************************************************************************)

VARIABLES
    pc,                     \* where the turn stands: idle, llm, exec, final, done, raised
    turn,                   \* number of turns started on the session
    tools,                  \* _agent_loop's `tools` argument
    active_tools,           \* the tool list handed to chat_completion in the loop
    iteration,
    messages,
    conversation_history,   \* state.conversation_history
    accumulated_text,
    all_tool_calls,
    iteration_traces,
    loop_advisories,
    tool_cache,
    total_tool_calls,
    tool_signature_counts,
    warned_signatures,
    content,                \* of the response being processed
    tool_calls,             \* of the response being processed
    tool_results,           \* _execute_tools' `results`
    tool_exec_infos,        \* _execute_tools' `execution_infos`
    llm_calls,              \* the LLM client's record of its chat_completion calls
    executed,               \* the registry's record of its execute_tool calls
    call_name,              \* execute_tool's tool_name
    behaviour,              \* what the tool function called does
    registry_result,        \* what execute_tool returned
    normalized_result,      \* _normalize_tool_result of it
    sanitized_result,       \* _sanitize_tool_result of it
    summary_result,         \* _summarize_tool_result's `normalized`
    registered,             \* the names in ToolRegistry._tools
    fixed_skill_id,         \* MemoryDrivenAgent.fixed_skill_id
    skill_store,            \* the skills get_skill_by_id can load             
    service_calls,          \* the calls process_message made to its services
    online_memories,        \* process_message's `online_memories`
    filter_result,          \* process_message's `filter_result`
    turn_result,            \* what process_message returned
    _sessions,              \* SessionManager._sessions
    last_call,              \* the last call made to the SessionManager
    filesystem,             \* the skill folders under skills_path
    database,               \* the rows of the skills table
    enable_filesystem,      \* SkillService.enable_filesystem
    skill_lookup,           \* the last get_skill_by_id call and what came of it
    msp,                    \* the entities of the drawing's model space
    bbox,                   \* the bbox handed to the CAD tools
    extract_result,         \* what extract_cad_entities returned
    inspect_result,         \* what inspect_region returned
    boxes,                  \* get_renderable_bounds' `boxes`
    bounds_result,          \* what get_renderable_bounds returned
    llm_client,             \* MemoryDrivenAgent.llm_client
    client_log,             \* per turn: the skill_config selected, the client the loop used
    tasks,                  \* the process_message coroutines on the event loop
    trace_log               \* the lines of the file at trace_log_path

\* The variables of one tool execution followed on its own.
tool_vars == << call_name, behaviour, registry_result, normalized_result,
                sanitized_result, summary_result >>

\* The variables of process_message before and after the agent loop.
turn_vars == << registered, fixed_skill_id, skill_store, service_calls,
                online_memories, filter_result, turn_result >>

\* The variables of the SessionManager followed on its own.
lookup_vars == << _sessions, last_call >>

\* The variables of the SkillService followed on its own.
store_vars == << filesystem, database, enable_filesystem, skill_lookup >>

\* The variables of the CAD tools followed on their own.
cad_vars == << msp, bbox, extract_result, inspect_result, boxes, bounds_result >>

\* The variables of an agent instance followed over its turns, and of the
\* trace log the turns write to.
agent_vars == << llm_client, client_log, tasks, trace_log >>

\* The variables the agent loop does not touch.
aux_vars == << tool_vars, turn_vars, lookup_vars, store_vars, cad_vars, agent_vars >>

\* What the steps of each part followed on its own leave alone.
ToolFrame == << turn_vars, lookup_vars, store_vars, cad_vars, agent_vars >>

TurnFrame == << tool_vars, lookup_vars, store_vars, cad_vars, agent_vars >>

\* The variables of the agent loop and of the session.
loop_vars == << pc, turn, tools, active_tools, iteration, messages, conversation_history,
                accumulated_text, all_tool_calls, iteration_traces, loop_advisories,
                tool_cache, total_tool_calls, tool_signature_counts, warned_signatures,
                content, tool_calls, tool_results, tool_exec_infos, llm_calls, executed >>

vars == << loop_vars, aux_vars >>

LookupFrame == << loop_vars, tool_vars, turn_vars, store_vars, cad_vars, agent_vars >>

StoreFrame == << loop_vars, tool_vars, turn_vars, lookup_vars, cad_vars, agent_vars >>

CadFrame == << loop_vars, tool_vars, turn_vars, lookup_vars, store_vars, agent_vars >>

AgentFrame == << loop_vars, tool_vars, turn_vars, lookup_vars, store_vars, cad_vars >>

\* No tool execution is being followed on its own.
ToolIdle ==
    /\ call_name = "inspect_region"
    /\ behaviour = Returns(PyNone)
    /\ registry_result = PyNone
    /\ normalized_result = PyNone
    /\ sanitized_result = PyNone
    /\ summary_result = PyNone

\* No process_message call is being followed.
TurnIdle ==
    /\ registered = RegisteredTools
    /\ fixed_skill_id = None
    /\ skill_store = {}
    /\ service_calls = << >>
    /\ online_memories = << >>
    /\ filter_result = [skill_id |-> None]
    /\ turn_result = [pending |-> TRUE]

\* A call of the SessionManager: the method, its argument, what it returned.
ManagerCall(method, argument, returned) ==
    [method |-> method, argument |-> argument, returned |-> returned]

\* The number of values uuid4() draws from.
NumUuids == 3

\* A value handed to the SessionManager as a session id: a uuid.UUID of the
\* given 128-bit value, a str written in one of the forms below for that
\* value, or None.
UuidKey(value) == [type |-> "UUID", form |-> "native", value |-> value]

StrKey(form, value) == [type |-> "str", form |-> form, value |-> value]

NoKey == [type |-> "NoneType", form |-> "none", value |-> 0]

\* The forms of a str: str(uuid), the same in upper case, the 32 hex digits
\* without hyphens, the urn form, and a text that is no UUID.
StrForms == { "canonical", "upper", "hex", "urn", "invalid" }

\* AgentState(): session_id and an empty conversation_history.
NewAgentState(session_id) == [session_id |-> session_id, conversation_history |-> << >>]

\* No AgentState (`None`).
NoSession == [session_id |-> NoKey, conversation_history |-> << >>]

\* The SessionManager is not being followed on its own.
LookupIdle ==
    /\ _sessions = [k \in {} |-> 0]
    /\ last_call = ManagerCall("none", NoKey, NoSession)

\* The SkillService is not being followed on its own.
StoreIdle ==
    /\ filesystem = {}
    /\ database = {}
    /\ enable_filesystem = TRUE
    /\ skill_lookup = [skill_id |-> None, outcome |-> "none"]

\* Everything but the loop and the part being followed is idle.
\* {"x": x, "y": y, "width": width, "height": height}
Bbox(x, y, width, height) ==
    [given |-> TRUE, x |-> x, y |-> y, width |-> width, height |-> height]

\* `bbox=None`
NoBbox == [given |-> FALSE, x |-> 0, y |-> 0, width |-> 0, height |-> 0]

\* A call that has not returned.
PendingResult == [pending |-> TRUE, success |-> FALSE]

\* No call of extract_cad_entities or inspect_region is being followed.
RegionIdle ==
    /\ msp = << >>
    /\ bbox = NoBbox
    /\ extract_result = PendingResult
    /\ inspect_result = PendingResult

\* No call of get_renderable_bounds is being followed.
BoundsIdle ==
    /\ boxes = << >>
    /\ bounds_result = PendingResult

CadIdle == RegionIdle /\ BoundsIdle

\* `self.llm_client = None`
NoClient == [model |-> "none"]

\* No agent instance and no trace log is being followed.
AgentIdle ==
    /\ llm_client = NoClient
    /\ client_log = << >>
    /\ tasks = << >>
    /\ trace_log = << >>

AuxIdle == ToolIdle /\ TurnIdle /\ LookupIdle /\ StoreIdle /\ CadIdle /\ AgentIdle

\* The variables of the response being processed.
response_vars == << content, tool_calls, tool_results, tool_exec_infos >>

\* The loop's bookkeeping of tool calls.
guard_vars == << tool_cache, total_tool_calls, tool_signature_counts,
                 warned_signatures, all_tool_calls, executed >>

\* A dict with no key.
EmptyDict == [k \in {} |-> 0]

\* d.get(k, 0)
GetCount(d, k) == IF k \in DOMAIN d THEN d[k] ELSE 0

\* d[k] = v
DictSet(d, k, v) == [j \in DOMAIN d \cup {k} |-> IF j = k THEN v ELSE d[j]]

\* AgentState.add_message(role, content, tool_calls=..., tool_call_id=...)
add_message(history, role, c, calls, call_id, json) ==
    Append(history, Message(role, c, calls, call_id, json))

\* MemoryDrivenAgent._build_messages: the system prompt, then the history.
_build_messages(history) ==
    << SystemMessage(<<"system_prompt">>) >> \o
    [i \in DOMAIN history |->
        Message(history[i].role, history[i].content, history[i].tool_calls,
                history[i].tool_call_id, history[i].json)]

\* The signature without sort_keys: the arguments in the order written.
SignatureUnsorted(function_name, arguments) ==
    << function_name, json_dumps(arguments) >>

\* MemoryDrivenAgent._build_tool_signature
_build_tool_signature(function_name, arguments) ==
    << function_name, json_dumps_sort_keys(arguments) >>

\* The loop test off by one.
LoopContinuesInclusive(iter) == iter <= max_iterations

\* `while iteration < self.max_iterations`
LoopContinues(iter) == iter < max_iterations

\* `if iteration >= self.max_iterations` after the loop
NeedsFinalization(iter) == iter >= max_iterations

\* Where control goes when the while loop is left with the given counter.
ExitPc(iter) == IF NeedsFinalization(iter) THEN "final" ELSE "done"

\* The message list when the while loop is left: the finalization order is
\* appended before the finalization call is made.
ExitMessages(iter, msgs) ==
    IF NeedsFinalization(iter) THEN Append(msgs, FinalizeOrder) ELSE msgs

\* What chat_completion came to: it raised, or returned a response without
\* choices, or one whose first choice has the given content and tool_calls.
Response(kind, c, calls) == [kind |-> kind, content |-> c, tool_calls |-> calls]

Raised == Response("raised", <<None>>, << >>)

NoChoices == Response("no_choices", <<None>>, << >>)

\* The LLM client's record of one chat_completion call: what it was handed
\* and what it came to; final marks the call made after the loop.
LLMCall(msgs, tls, final, response) ==
    [messages |-> msgs, tools |-> tls, final |-> final, response |-> response]

\* The locals of _agent_loop at its entry.
LoopEntry ==
    /\ active_tools = tools
    /\ iteration = 0
    /\ accumulated_text = EmptyStr
    /\ all_tool_calls = << >>
    /\ iteration_traces = << >>
    /\ loop_advisories = << >>
    /\ tool_cache = EmptyDict
    /\ total_tool_calls = 0
    /\ tool_signature_counts = EmptyDict
    /\ warned_signatures = {}
    /\ content = EmptyStr
    /\ tool_calls = << >>
    /\ tool_results = << >>
    /\ tool_exec_infos = << >>
    /\ llm_calls = << >>
    /\ executed = << >>

\* One _agent_loop invocation on a fresh session, entered from
\* process_message with the user's message in the history.
Init ==
    /\ turn = 1
    /\ tools \in ToolLists
    /\ conversation_history = << UserMessage(<<"user_text">>) >>
    /\ messages = IF LoopContinues(0)
                  THEN _build_messages(conversation_history)
                  ELSE ExitMessages(0, _build_messages(conversation_history))
    /\ pc = IF LoopContinues(0) THEN "llm" ELSE ExitPc(0)
    /\ LoopEntry
    /\ AuxIdle

\* A session before its first turn.
SessionInit ==
    /\ turn = 0
    /\ tools = << >>
    /\ conversation_history = << >>
    /\ messages = << >>
    /\ pc = "idle"
    /\ LoopEntry
    /\ AuxIdle

(***************************************************************************)
(* _agent_loop: the LLM call of one iteration.                             *)
(***************************************************************************)

\* chat_completion raises inside the while loop: nothing catches it.
LLMRaises ==
    /\ pc = "llm"
    /\ iteration' = iteration + 1
    /\ llm_calls' = Append(llm_calls, LLMCall(messages, active_tools, FALSE, Raised))
    /\ pc' = "raised"
    /\ UNCHANGED << turn, tools, active_tools, messages, conversation_history, accumulated_text,
                    iteration_traces, loop_advisories, response_vars, guard_vars >>
    /\ UNCHANGED aux_vars

\* The response has no choices: break.
LLMNoChoices ==
    /\ pc = "llm"
    /\ iteration' = iteration + 1
    /\ llm_calls' = Append(llm_calls, LLMCall(messages, active_tools, FALSE, NoChoices))
    /\ pc' = ExitPc(iteration')
    /\ messages' = ExitMessages(iteration', messages)
    /\ UNCHANGED << turn, tools, active_tools, conversation_history, accumulated_text,
                    iteration_traces, loop_advisories, response_vars, guard_vars >>
    /\ UNCHANGED aux_vars

\* The trace entry of an iteration.
IterationTrace(iter, plan, calls, advisories, summary) ==
    [iteration |-> iter, assistant_plan |-> plan, tool_calls |-> calls,
     advisories |-> advisories, summary |-> summary]

\* The response has no tool calls: the answer is recorded and the loop breaks.
LLMAnswers(contents) ==
    /\ pc = "llm"
    /\ \E c \in contents :
        /\ iteration' = iteration + 1
        /\ llm_calls' = Append(llm_calls,
               LLMCall(messages, active_tools, FALSE, Response("message", c, << >>)))
        /\ content' = OrEmpty(c)
        /\ tool_calls' = << >>
        /\ accumulated_text' = StrConcat(accumulated_text, content')
        /\ iteration_traces' = Append(iteration_traces,
               IterationTrace(iteration', content', << >>, << >>, "no tool calls; finalize response"))
        /\ conversation_history' =
               add_message(conversation_history, "assistant", content', << >>, None, NoEnvelope)
        /\ pc' = ExitPc(iteration')
        /\ messages' = ExitMessages(iteration', messages)
    /\ UNCHANGED << turn, tools, active_tools, loop_advisories, tool_results, tool_exec_infos, guard_vars >>
    /\ UNCHANGED aux_vars

\* The response carries tool calls: _execute_tools is entered.
LLMRequestsTools(batches, contents) ==
    /\ pc = "llm"
    /\ \E c \in contents, batch \in batches :
        /\ iteration' = iteration + 1
        /\ llm_calls' = Append(llm_calls,
               LLMCall(messages, active_tools, FALSE, Response("message", c, batch)))
        /\ content' = OrEmpty(c)
        /\ tool_calls' = batch
        /\ accumulated_text' = StrConcat(accumulated_text, content')
        /\ tool_results' = << >>
        /\ tool_exec_infos' = << >>
        /\ pc' = "exec"
    /\ UNCHANGED << turn, tools, active_tools, messages, conversation_history, iteration_traces,
                    loop_advisories, guard_vars >>
    /\ UNCHANGED aux_vars

(***************************************************************************)
(* _execute_tools: the body of `for tool_call in tool_calls`.              *)
(***************************************************************************)

ExecInfo(name, cached, signature) ==
    [tool_name |-> name, cached |-> cached, signature |-> signature]

\* The record of a call whose arguments did not parse, given a signature
\* made of the raw text.
ParseFailureInfoSigned(function_name) ==
    ExecInfo(function_name, FALSE, << function_name, << <<"_raw_arguments", -1>> >> >>)

\* The execution_infos entry of a call whose arguments did not parse:
\* `"cached": False, "signature": None`.
ParseFailureInfo(function_name) == ExecInfo(function_name, FALSE, NoSignature)

\* `tool_cache is not None and signature in tool_cache`
CacheHit(cache, signature) == signature \in DOMAIN cache

\* A cache that keeps successful results only.
CacheStoreSuccessOnly(cache, signature, result) ==
    IF Truthy(PyGet(result, "success")) THEN DictSet(cache, signature, result) ELSE cache

\* `tool_cache[signature] = copy.deepcopy(result)`
CacheStore(cache, signature, result) == DictSet(cache, signature, result)

ExecuteTool(outcomes) ==
    /\ pc = "exec"
    /\ Len(tool_results) < Len(tool_calls)
    /\ LET tool_call == tool_calls[Len(tool_results) + 1]
           function_name == tool_call.name
           arguments == json_loads(tool_call.arguments)
           signature == _build_tool_signature(function_name, arguments)
       IN  IF ~tool_call.arguments.valid
           THEN \* json.loads raised
                /\ tool_results' = Append(tool_results, ParseFailure)
                /\ tool_exec_infos' = Append(tool_exec_infos, ParseFailureInfo(function_name))
                /\ UNCHANGED << pc, tool_cache, executed >>
           ELSE IF CacheHit(tool_cache, signature)
           THEN /\ tool_results' = Append(tool_results, tool_cache[signature])
                /\ tool_exec_infos' = Append(tool_exec_infos,
                                             ExecInfo(function_name, TRUE, signature))
                /\ UNCHANGED << pc, tool_cache, executed >>
           ELSE IF ~arguments.object
           THEN \* `**arguments` on a value that is no mapping: TypeError
                /\ pc' = "raised"
                /\ UNCHANGED << tool_results, tool_exec_infos, tool_cache, executed >>
           ELSE \E outcome \in outcomes :
                  LET result == _sanitize_tool_result(function_name,
                                    execute_tool(function_name, outcome))
                  IN IF function_name \in RegisteredTools /\ Propagates(outcome)
                     THEN \* no handler up to the caller of process_message
                          \* catches it: the turn ends with the exception
                          /\ executed' = Append(executed,
                                           [tool_name |-> function_name, kwargs |-> arguments])
                          /\ pc' = "cancelled"
                          /\ UNCHANGED << tool_results, tool_exec_infos, tool_cache >>
                     ELSE
                     /\ executed' = Append(executed,
                                           [tool_name |-> function_name, kwargs |-> arguments])
                     /\ tool_cache' = CacheStore(tool_cache, signature, result)
                     /\ tool_results' = Append(tool_results, result)
                     /\ tool_exec_infos' = Append(tool_exec_infos,
                                                  ExecInfo(function_name, FALSE, signature))
                     /\ pc' = pc
    /\ UNCHANGED << turn, tools, active_tools, iteration, messages, conversation_history,
                    accumulated_text, all_tool_calls, iteration_traces, loop_advisories,
                    total_tool_calls, tool_signature_counts, warned_signatures,
                    content, tool_calls, llm_calls >>
    /\ UNCHANGED aux_vars

(***************************************************************************)
(* _agent_loop: after _execute_tools has returned.                         *)
(***************************************************************************)

\* parsed_args of a recorded call: the parsed arguments, or the raw text
\* under "_raw_arguments".
ParsedArgs(text) ==
    IF text.valid THEN json_loads(text)
    ELSE [object |-> TRUE, items |-> << <<"_raw_arguments", -1>> >>]

Advisory(iter, type, tool, signature, repeat_count, total) ==
    [iteration |-> iter, type |-> type, tool |-> tool, signature |-> signature,
     repeat_count |-> repeat_count, total_tool_calls |-> total]

\* The repeat guard without its one-shot check.
ShouldWarnEveryTime(repeat_count, signature, warned) ==
    repeat_count >= loop_review_repeat_threshold

\* `repeat_count >= self.loop_review_repeat_threshold and signature not in warned_signatures`
ShouldWarn(repeat_count, signature, warned) ==
    repeat_count >= loop_review_repeat_threshold /\ signature \notin warned

\* `total_tool_calls >= self.max_tool_calls_per_turn`
BudgetReached(total) == total >= max_tool_calls_per_turn

\* _summarize_tool_result(...)["success"]
SummarySuccess(result) == Truthy(PyGet(_normalize_tool_result(result), "success"))

\* The bookkeeping loop `for tool_call, result, exec_info in zip(...)`, from
\* its i-th round on; acc holds what the loop updates.
RECURSIVE CollectToolCalls(_, _, _, _, _, _)
CollectToolCalls(i, iter, calls, results, infos, acc) ==
    IF i > Len(calls) \/ i > Len(results) \/ i > Len(infos) THEN acc
    ELSE
      LET tool_call == calls[i]
          signature == infos[i].signature
          counted == signature # NoSignature
          repeat_count == GetCount(acc.counts, signature) + 1
          warn == counted /\ ShouldWarn(repeat_count, signature, acc.warned)
          entry == [name |-> tool_call.name, args |-> ParsedArgs(tool_call.arguments),
                    result |-> results[i], cached |-> infos[i].cached,
                    signature |-> signature]
          trace_entry == [name |-> tool_call.name, cached |-> infos[i].cached,
                          signature |-> signature,
                          success |-> SummarySuccess(results[i])]
      IN CollectToolCalls(i + 1, iter, calls, results, infos,
           [counts |-> IF counted THEN DictSet(acc.counts, signature, repeat_count)
                       ELSE acc.counts,
            warned |-> IF warn THEN acc.warned \cup {signature} ELSE acc.warned,
            messages |-> IF warn THEN Append(acc.messages, RepeatHint(tool_call.name))
                         ELSE acc.messages,
            advisories |-> IF warn
                           THEN Append(acc.advisories,
                                  Advisory(iter, "repeat_signature", tool_call.name,
                                           signature, repeat_count, 0))
                           ELSE acc.advisories,
            calls |-> Append(acc.calls, entry),
            trace_calls |-> Append(acc.trace_calls, trace_entry),
            trace_advisories |-> IF warn
                                 THEN Append(acc.trace_advisories, "repeat_signature")
                                 ELSE acc.trace_advisories])

\* The assistant message appended to the message list.
AssistantToolMessage(c, calls) == Message("assistant", OrNone(c), calls, None, NoEnvelope)

\* The tool messages of a batch in the reverse of the order of the calls.
ToolMessagesReversed(calls, results) ==
    LET n == IF Len(calls) < Len(results) THEN Len(calls) ELSE Len(results)
    IN [i \in 1..n |-> ToolMessage(calls[n + 1 - i].id, results[n + 1 - i])]

\* The tool messages of a batch, `for tool_call, result in zip(tool_calls, tool_results)`.
ToolMessages(calls, results) ==
    [i \in 1..(IF Len(calls) < Len(results) THEN Len(calls) ELSE Len(results)) |->
        ToolMessage(calls[i].id, results[i])]

\* The history with the tool messages saved before the assistant message.
HistoryToolsFirst(history, c, calls, results) ==
    (history \o ToolMessages(calls, results))
    \o << Message("assistant", c, calls, None, NoEnvelope) >>

\* `state.add_message("assistant", content, tool_calls=tool_calls)` and then
\* one `state.add_message("tool", json.dumps(result), tool_call_id=tool_call.id)`
\* per call.
HistoryAfterBatch(history, c, calls, results) ==
    add_message(history, "assistant", c, calls, None, NoEnvelope)
    \o ToolMessages(calls, results)

\* A hard budget: the tools are withdrawn once the budget is reached.
ToolsWithdrawn(tls, total) == IF total >= max_tool_calls_per_turn THEN << >> ELSE tls

\* active_tools after the budget check: nothing assigns it.
ToolsAfterBudget(tls, total) == tls

RecordBatch ==
    /\ pc = "exec"
    /\ Len(tool_results) = Len(tool_calls)
    /\ LET acc == CollectToolCalls(1, iteration, tool_calls, tool_results, tool_exec_infos,
                     [counts |-> tool_signature_counts, warned |-> warned_signatures,
                      messages |-> messages, advisories |-> loop_advisories,
                      calls |-> all_tool_calls, trace_calls |-> << >>,
                      trace_advisories |-> << >>])
           total == total_tool_calls + Len(tool_calls)
           over == BudgetReached(total)
           appended == (acc.messages \o << AssistantToolMessage(content, tool_calls) >>
                           \o ToolMessages(tool_calls, tool_results))
                       \o (IF over THEN << BudgetHint >> ELSE << >>)
       IN /\ tool_signature_counts' = acc.counts
          /\ warned_signatures' = acc.warned
          /\ all_tool_calls' = acc.calls
          /\ conversation_history' =
               HistoryAfterBatch(conversation_history, content, tool_calls, tool_results)
          /\ total_tool_calls' = total
          /\ loop_advisories' =
               IF over
               THEN Append(acc.advisories,
                           Advisory(iteration, "tool_budget_warning", None, NoSignature, 0, total))
               ELSE acc.advisories
          /\ iteration_traces' = Append(iteration_traces,
               IterationTrace(iteration, content, acc.trace_calls,
                              acc.trace_advisories
                                \o (IF over THEN << "tool_budget_warning" >> ELSE << >>),
                              "tool summary"))
          /\ active_tools' = ToolsAfterBudget(active_tools, total)
          /\ IF LoopContinues(iteration)
             THEN /\ pc' = "llm"
                  /\ messages' = appended
             ELSE /\ pc' = ExitPc(iteration)
                  /\ messages' = ExitMessages(iteration, appended)
    /\ UNCHANGED << turn, tools, iteration, accumulated_text, tool_cache, executed,
                    response_vars, llm_calls >>
    /\ UNCHANGED aux_vars

(***************************************************************************)
(* _agent_loop: forced finalization.                                       *)
(***************************************************************************)

\* The finalization call made with the loop's tools still offered.
FinalToolsKept == <<"inspect_region", "get_cad_metadata">>

\* The tool list of the finalization call.
FinalTools == << >>

\* chat_completion(messages, tools=[]) returns.
FinalizeResponds(contents) ==
    /\ pc = "final"
    /\ \E final_response \in {NoChoices} \cup {Response("message", c, << >>) : c \in contents} :
        LET final_content == IF final_response.kind = "no_choices" THEN EmptyStr
                             ELSE OrEmpty(final_response.content)
        IN /\ llm_calls' = Append(llm_calls, LLMCall(messages, FinalTools, TRUE, final_response))
           /\ IF final_content # EmptyStr
              THEN /\ accumulated_text' = StrConcat(accumulated_text, final_content)
                   /\ conversation_history' =
                        add_message(conversation_history, "assistant", final_content,
                                    << >>, None, NoEnvelope)
                   /\ iteration_traces' = Append(iteration_traces,
                        IterationTrace(iteration + 1, final_content, << >>,
                                       << "forced_finalization" >>,
                                       "forced final answer without tools"))
              ELSE UNCHANGED << accumulated_text, conversation_history, iteration_traces >>
           /\ pc' = "done"
    /\ UNCHANGED << turn, tools, active_tools, iteration, messages, loop_advisories, response_vars,
                    guard_vars >>
    /\ UNCHANGED aux_vars

\* chat_completion raises in the finalization call: recorded, not propagated.
FinalizeRaises ==
    /\ pc = "final"
    /\ llm_calls' = Append(llm_calls, LLMCall(messages, FinalTools, TRUE, Raised))
    /\ loop_advisories' = Append(loop_advisories,
           Advisory(iteration, "finalization_error", None, NoSignature, 0, 0))
    /\ pc' = "done"
    /\ UNCHANGED << turn, tools, active_tools, iteration, messages, conversation_history,
                    accumulated_text, iteration_traces, response_vars, guard_vars >>
    /\ UNCHANGED aux_vars

\* The dict _agent_loop returns.
LoopResult ==
    [text |-> accumulated_text, iterations |-> iteration, tool_calls |-> all_tool_calls,
     iteration_traces |-> iteration_traces, loop_advisories |-> loop_advisories]

(***************************************************************************)
(* process_message: the next turn on the session.                          *)
(***************************************************************************)

\* A cache kept on the agent: the turn starts with what the earlier turn left.
LoopCacheShared(previous) == previous

\* `tool_cache: Dict[str, Dict[str, Any]] = {}`: a local of the invocation,
\* whatever the cache of the earlier invocation held.
LoopCache(previous) == EmptyDict

\* The user's message is added to the history, the message list is rebuilt
\* from the history and _agent_loop is entered with fresh locals.
StartTurn(toolLists) ==
    /\ pc \in {"idle", "done", "raised"}
    /\ turn < MaxTurns
    /\ turn' = turn + 1
    /\ tools' \in toolLists
    /\ active_tools' = tools'
    /\ conversation_history' =
         add_message(conversation_history, "user", <<"user_text">>, << >>, None, NoEnvelope)
    /\ messages' = IF LoopContinues(0)
                   THEN _build_messages(conversation_history')
                   ELSE ExitMessages(0, _build_messages(conversation_history'))
    /\ pc' = IF LoopContinues(0) THEN "llm" ELSE ExitPc(0)
    /\ iteration' = 0
    /\ accumulated_text' = EmptyStr
    /\ all_tool_calls' = << >>
    /\ iteration_traces' = << >>
    /\ loop_advisories' = << >>
    /\ tool_cache' = LoopCache(tool_cache)
    /\ total_tool_calls' = 0
    /\ tool_signature_counts' = EmptyDict
    /\ warned_signatures' = {}
    /\ content' = EmptyStr
    /\ tool_calls' = << >>
    /\ tool_results' = << >>
    /\ tool_exec_infos' = << >>
    /\ llm_calls' = << >>
    /\ executed' = << >>
    /\ UNCHANGED aux_vars

(***************************************************************************)
(* Specifications.                                                         *)
(***************************************************************************)

Next ==
    \/ LLMRaises
    \/ LLMNoChoices
    \/ LLMAnswers(LoopContents)
    \/ LLMRequestsTools(LoopBatches, LoopContents)
    \/ ExecuteTool(RegistryOutcomes)
    \/ RecordBatch
    \/ FinalizeResponds(LoopContents)
    \/ FinalizeRaises

Spec == Init /\ [][Next]_vars

\* The event loop resumes the coroutine whenever the call it awaits (the LLM,
\* a tool) has returned or raised.
LiveNext ==
    \/ LLMRaises
    \/ LLMNoChoices
    \/ LLMAnswers(SessionContents)
    \/ LLMRequestsTools(LiveBatches, SessionContents)
    \/ ExecuteTool(LiveOutcomes)
    \/ RecordBatch
    \/ FinalizeResponds(SessionContents)
    \/ FinalizeRaises

LiveSpec == Init /\ [][LiveNext]_vars /\ WF_vars(LiveNext)

\* What the tool function does in the runs with cancellation: it returns,
\* raises, or is cancelled while awaited.
CancelOutcomes == LiveOutcomes \cup { Cancelled }

CancelNext ==
    \/ LLMRaises
    \/ LLMNoChoices
    \/ LLMAnswers(SessionContents)
    \/ LLMRequestsTools(LiveBatches, SessionContents)
    \/ ExecuteTool(CancelOutcomes)
    \/ RecordBatch
    \/ FinalizeResponds(SessionContents)
    \/ FinalizeRaises

CancelSpec == Init /\ [][CancelNext]_vars

SessionNext ==
    \/ StartTurn(SessionToolLists)
    \/ LLMRaises
    \/ LLMNoChoices
    \/ LLMAnswers(SessionContents)
    \/ LLMRequestsTools(SessionBatches, SessionContents)
    \/ ExecuteTool(SessionOutcomes)
    \/ RecordBatch
    \/ FinalizeResponds(SessionContents)
    \/ FinalizeRaises

SessionSpec == SessionInit /\ [][SessionNext]_vars

(***************************************************************************)
(* One tool execution followed on its own: ToolRegistry.execute_tool, then *)
(* _sanitize_tool_result as _execute_tools applies it, then the            *)
(* normalization _summarize_tool_result starts with.                       *)
(***************************************************************************)

\* What a tool function may return as its payload.
SmallPayload == PyDict("value" :> PyStr("value", 5))

BigPayload == PyDict("value" :> PyStr("value", max_tool_result_chars + 1))

\* A rendering result: an image path, the image itself and the texts found.
ImagePayload(path_chars, value_chars) ==
    PyDict(("image_path" :> PyStr("path", path_chars))
           @@ ("image_base64" :> PyStr("base64", max_tool_result_chars + 1))
           @@ ("value" :> PyStr("value", value_chars))
           @@ ("key_content" :> PyDict(("texts" :> PyList(TextsLimit + 10, 13))
                                       @@ ("text_count" :> PyInt(TextsLimit + 10)))))

\* A rendering result with n short texts: an image path, the image itself,
\* the texts found, and a value of the tool's own.
PreviewPayload(n, value_chars) ==
    PyDict(("image_path" :> PyStr("path", 5))
           @@ ("image_base64" :> PyStr("base64", max_tool_result_chars + 1))
           @@ ("value" :> PyStr("value", value_chars))
           @@ ("key_content" :> PyDict(("texts" :> PyList(n, 1))
                                       @@ ("text_count" :> PyInt(n)))))

Payloads ==
    { SmallPayload, BigPayload,
      PreviewPayload(TextsLimit + 1, 5),
      PreviewPayload(TextsLimit + 10, 5),
      PreviewPayload(TextsLimit + 10, max_tool_result_chars + 1),
      ImagePayload(5, 5),
      ImagePayload(5, max_tool_result_chars + 1),
      ImagePayload(max_tool_result_chars + 1, 5),
      PyDict("value" :> PyObject),
      PyObject, PyStr("text", 5), PyNone }

Errors == { PyStr("boom", 4), PyStr("boom_long", max_tool_result_chars + 1) }

\* {"error": "..."} without an envelope.
LegacyErrors == { PyDict("error" :> e) : e \in Errors }

\* Envelopes as the registry defines them.
FlatEnvelopes ==
    { SuccessEnvelope(p) : p \in Payloads } \cup { FailureEnvelope(e) : e \in Errors }

\* An envelope whose data is an envelope, or a legacy error.
NestedEnvelopes ==
    { SuccessEnvelope(e) : e \in FlatEnvelopes \cup LegacyErrors }
    \cup { PyDict(("success" :> PyBool(FALSE)) @@ ("data" :> FailureEnvelope(PyStr("boom", 4)))) }

\* An envelope wrapped twice.
DeepEnvelopes ==
    { SuccessEnvelope(SuccessEnvelope(SuccessEnvelope(SmallPayload))),
      SuccessEnvelope(SuccessEnvelope(FailureEnvelope(PyStr("boom", 4)))),
      SuccessEnvelope(SuccessEnvelope(PyDict("error" :> PyStr("boom", 4)))) }

\* Dicts with a success key that are no envelope as the registry defines it.
OddResults ==
    { PyDict("success" :> PyBool(TRUE)),
      PyDict(("success" :> PyBool(FALSE)) @@ ("value" :> PyStr("value", 5))) }

\* What the tool function does.
ToolBehaviours ==
    { Returns(v) : v \in Payloads \cup LegacyErrors \cup FlatEnvelopes
                         \cup NestedEnvelopes \cup DeepEnvelopes \cup OddResults }
    \cup { Raises(e) : e \in Errors }

\* The names execute_tool is called with that are not registered.
UnregisteredNames == { "no_such_tool", "no_such_tool_long" }

ToolInit ==
    /\ pc = "registry"
    /\ \/ call_name = "inspect_region" /\ behaviour \in ToolBehaviours
       \/ call_name \in UnregisteredNames /\ behaviour = Returns(PyNone)
    /\ registry_result = PyNone
    /\ normalized_result = PyNone
    /\ sanitized_result = PyNone
    /\ summary_result = PyNone
    /\ turn = 0
    /\ tools = << >>
    /\ conversation_history = << >>
    /\ messages = << >>
    /\ LoopEntry
    /\ AgentIdle
    /\ TurnIdle
    /\ LookupIdle
    /\ StoreIdle
    /\ CadIdle

\* `result = await self.tool_registry.execute_tool(tool_name=function_name, ...)`
RegistryExecutes ==
    /\ pc = "registry"
    /\ registry_result' = execute_tool(call_name, behaviour)
    /\ pc' = "sanitize"
    /\ UNCHANGED << call_name, behaviour, normalized_result, sanitized_result, summary_result >>
    /\ UNCHANGED << turn, tools, active_tools, iteration, messages, conversation_history,
                    accumulated_text, iteration_traces, loop_advisories, response_vars,
                    guard_vars, llm_calls >>
    /\ UNCHANGED ToolFrame

\* `result = self._sanitize_tool_result(function_name, result)`, which starts
\* with `safe = self._normalize_tool_result(result)`.
Sanitizes ==
    /\ pc = "sanitize"
    /\ normalized_result' = _normalize_tool_result(registry_result)
    /\ sanitized_result' = _sanitize_tool_result(call_name, registry_result)
    /\ pc' = "summarize"
    /\ UNCHANGED << call_name, behaviour, registry_result, summary_result >>
    /\ UNCHANGED << turn, tools, active_tools, iteration, messages, conversation_history,
                    accumulated_text, iteration_traces, loop_advisories, response_vars,
                    guard_vars, llm_calls >>
    /\ UNCHANGED ToolFrame

\* _summarize_tool_result: `normalized = self._normalize_tool_result(result)`
\* on the sanitized result.
Summarizes ==
    /\ pc = "summarize"
    /\ summary_result' = _normalize_tool_result(sanitized_result)
    /\ pc' = "summarized"
    /\ UNCHANGED << call_name, behaviour, registry_result, normalized_result, sanitized_result >>
    /\ UNCHANGED << turn, tools, active_tools, iteration, messages, conversation_history,
                    accumulated_text, iteration_traces, loop_advisories, response_vars,
                    guard_vars, llm_calls >>
    /\ UNCHANGED ToolFrame

ToolNext ==
    \/ RegistryExecutes
    \/ Sanitizes
    \/ Summarizes

ToolSpec == ToolInit /\ [][ToolNext]_vars

(***************************************************************************)
(* process_message: one turn, from the user's message to the dict it       *)
(* returns.  The turn is followed from the point where the session has     *)
(* been found and the user's message added to its history.                 *)
(***************************************************************************)

\* ToolRegistry.get_default_tools: `default_tool_names`
DefaultToolNames == << "database_operation", "search" >>

\* The registries a turn runs against: with and without the default tools.
Registries == { RegisteredTools \cup {"database_operation", "search"}, RegisteredTools }

\* A Skill row: id, tool_set, prompt_template.
Skill(id, tool_set) == [id |-> id, tool_set |-> tool_set, prompt_template |-> "skill_prompt"]

\* get_skill_by_id found nothing (`None`).
NoSkill == [id |-> None, tool_set |-> << >>, prompt_template |-> ""]

\* The tool_sets of the stored skill: all names registered, one of two
\* missing, the only one missing, none at all.
ToolSets ==
    { << "inspect_region", "get_cad_metadata" >>, << "inspect_region", "no_such_tool" >>,
      << "no_such_tool" >>, << >> }

\* The skill stores: the skill is there with one of the tool_sets, or is not.
SkillStores == { {} } \cup { { Skill("skill_a", ts) } : ts \in ToolSets }

\* SkillService.get_skill_by_id: the skill of the filesystem or the
\* database, None when neither has it.
get_skill_by_id(skill_id, store) ==
    IF \E skill \in store : skill.id = skill_id
    THEN CHOOSE skill \in store : skill.id = skill_id
    ELSE NoSkill

\* ToolRegistry.get_tools_by_names: the schema of each name that is
\* registered, in the order of the names.
get_tools_by_names(tool_names, reg) == SelectSeq(tool_names, LAMBDA name : name \in reg)

\* ToolRegistry.get_default_tools
get_default_tools(reg) == get_tools_by_names(DefaultToolNames, reg)

\* What the memory service holds for the query.
Memories == << "memory_1" >>

\* OnlineMemoryAdapter.recall_memories: the memories of the bundle; an
\* empty list when the service answers with an error, times out or the
\* request raises.
recall_memories(outcome) == IF outcome = "ok" THEN Memories ELSE << >>

RecallOutcomes == { "ok", "failed" }

\* EmbeddingService.generate returns a vector or raises.
EmbeddingOutcomes == { "ok", "raised" }

\* FilterService.filter_skills_and_facts returns {skill_id, fact_ids,
\* reasoning} with the id of a candidate or null, or raises.
FilterOutcomes == { "skill_a", None, "raised" }

\* One call of a service as the turn's log keeps it.
ServiceCall(service, outcome) == [service |-> service, outcome |-> outcome]

\* MemoryDrivenAgent._build_system_prompt: the skill prompt and the
\* memories make the system prompt.
_build_system_prompt(skill_prompt, memories) == << "system_prompt", skill_prompt >> \o memories

\* _build_messages(state, skill_prompt, online_memories)
TurnMessages(history, skill_prompt, memories) ==
    << SystemMessage(_build_system_prompt(skill_prompt, memories)) >>
    \o Tail(_build_messages(history))

\* The dicts process_message returns.
TurnSuccess(text, skill_id) ==
    [success |-> TRUE, text |-> text, session_id |-> "session", skill_id |-> skill_id]

TurnFailure(error) == [success |-> FALSE, error |-> error, session_id |-> "session"]

\* The variables of the loop and the session other than pc.
loop_locals == << turn, tools, active_tools, iteration, messages, conversation_history,
                  accumulated_text, iteration_traces, loop_advisories, response_vars,
                  guard_vars, llm_calls >>

\* The session is found and `state.add_message("user", user_message)` done.
TurnInit ==
    /\ pc = "embed"
    /\ turn = 1
    /\ tools = << >>
    /\ conversation_history = << UserMessage(<<"user_text">>) >>
    /\ messages = << >>
    /\ LoopEntry
    /\ AgentIdle
    /\ ToolIdle
    /\ LookupIdle
    /\ StoreIdle
    /\ CadIdle
    /\ registered \in Registries
    /\ fixed_skill_id \in { None, "skill_a" }
    /\ skill_store \in SkillStores
    /\ service_calls = << >>
    /\ online_memories = << >>
    /\ filter_result = [skill_id |-> None]
    /\ turn_result = [pending |-> TRUE]

\* `query_embedding = await self.embedding_service.generate(user_message)`:
\* inside the outer try, with no handler of its own.
GenerateEmbedding ==
    /\ pc = "embed"
    /\ \E outcome \in EmbeddingOutcomes :
        /\ service_calls' = Append(service_calls, ServiceCall("embedding", outcome))
        /\ IF outcome = "raised"
           THEN /\ turn_result' = TurnFailure("embedding_error")
                /\ pc' = "failed"
           ELSE /\ turn_result' = turn_result
                /\ pc' = "skill"
    /\ UNCHANGED << registered, fixed_skill_id, skill_store, online_memories, filter_result >>
    /\ UNCHANGED << loop_locals, TurnFrame >>

\* Fixed skill: `selected_skill = await self.skill_service.get_skill_by_id(
\* self.fixed_skill_id)`; not found returns the failure dict.
LoadFixedSkill ==
    /\ pc = "skill"
    /\ fixed_skill_id # None
    /\ service_calls' = Append(service_calls, ServiceCall("get_skill_by_id", fixed_skill_id))
    /\ IF get_skill_by_id(fixed_skill_id, skill_store) = NoSkill
       THEN /\ turn_result' = TurnFailure("skill_not_found")
            /\ filter_result' = filter_result
            /\ pc' = "failed"
       ELSE /\ turn_result' = turn_result
            /\ filter_result' = [skill_id |-> fixed_skill_id]
            /\ pc' = "recall"
    /\ UNCHANGED << registered, fixed_skill_id, skill_store, online_memories >>
    /\ UNCHANGED << loop_locals, TurnFrame >>

\* Fixed skill: the recall in its own try/except.
RecallForFixedSkill ==
    /\ pc = "recall"
    /\ \E outcome \in RecallOutcomes :
        /\ service_calls' = Append(service_calls, ServiceCall("recall", outcome))
        /\ online_memories' = recall_memories(outcome)
    /\ pc' = "prepare"
    /\ UNCHANGED << registered, fixed_skill_id, skill_store, filter_result, turn_result >>
    /\ UNCHANGED << loop_locals, TurnFrame >>

\* Automatic selection: `candidate_skills = await
\* self.skill_service.retrieve_skills(query_embedding, top_k=3)`.
RetrieveSkills ==
    /\ pc = "skill"
    /\ fixed_skill_id = None
    /\ service_calls' = Append(service_calls, ServiceCall("retrieve_skills", "ok"))
    /\ pc' = "gather"
    /\ UNCHANGED << registered, fixed_skill_id, skill_store, online_memories, filter_result,
                    turn_result >>
    /\ UNCHANGED << loop_locals, TurnFrame >>

\* The filter's answer as filter_result.
FilterAnswer(outcome) == [skill_id |-> outcome]

\* `{"skill_id": None, "fact_ids": []}`
FilterDefault == [skill_id |-> None]

\* Automatic selection: `online_memories, filter_result = await
\* asyncio.gather(recall_memories(...), filter_skills_and_facts(...))` in a
\* try; the except branch calls the filter again, takes the default when
\* that raises too, and sets `online_memories = []`.
GatherRecallAndFilter ==
    /\ pc = "gather"
    /\ \E recalled \in RecallOutcomes, filtered \in FilterOutcomes :
        LET both == << ServiceCall("recall", recalled), ServiceCall("filter", filtered) >>
        IN IF filtered # "raised"
           THEN /\ online_memories' = recall_memories(recalled)
                /\ filter_result' = FilterAnswer(filtered)
                /\ service_calls' = service_calls \o both
           ELSE \E again \in FilterOutcomes :
                /\ filter_result' = IF again # "raised" THEN FilterAnswer(again)
                                    ELSE FilterDefault
                /\ online_memories' = << >>
                /\ service_calls' = service_calls \o both
                                    \o << ServiceCall("filter", again) >>
    /\ pc' = "prepare"
    /\ UNCHANGED << registered, fixed_skill_id, skill_store, turn_result >>
    /\ UNCHANGED << loop_locals, TurnFrame >>

\* Step 4: `tools = self.tool_registry.get_tools_by_names(skill.tool_set)`
\* when filter_result names a skill that loads.
SkillTools ==
    IF filter_result.skill_id # None
       /\ get_skill_by_id(filter_result.skill_id, skill_store) # NoSkill
    THEN get_tools_by_names(get_skill_by_id(filter_result.skill_id, skill_store).tool_set,
                            registered)
    ELSE << >>

\* The tools with the fallback left out.
OfferedToolsNoFallback == SkillTools

\* `if not tools: tools = self.tool_registry.get_default_tools()`
OfferedTools ==
    IF SkillTools = << >> THEN get_default_tools(registered) ELSE SkillTools

\* skill_prompt of step 4
SkillPrompt ==
    IF filter_result.skill_id # None
    THEN get_skill_by_id(filter_result.skill_id, skill_store).prompt_template
    ELSE ""

\* Steps 4 and 5 and the entry of _agent_loop: the skill is loaded, the
\* tools resolved, the messages built.
PrepareToolsAndPrompt ==
    /\ pc = "prepare"
    /\ service_calls' =
         IF filter_result.skill_id # None
         THEN Append(service_calls, ServiceCall("get_skill_by_id", filter_result.skill_id))
         ELSE service_calls
    /\ tools' = OfferedTools
    /\ active_tools' = tools'
    /\ messages' =
         LET built == TurnMessages(conversation_history, SkillPrompt, online_memories)
         IN IF LoopContinues(0) THEN built ELSE ExitMessages(0, built)
    /\ pc' = IF LoopContinues(0) THEN "llm" ELSE ExitPc(0)
    /\ UNCHANGED << registered, fixed_skill_id, skill_store, online_memories, filter_result,
                    turn_result >>
    /\ UNCHANGED << turn, iteration, conversation_history, accumulated_text, iteration_traces,
                    loop_advisories, response_vars, guard_vars, llm_calls >>
    /\ UNCHANGED TurnFrame

\* _agent_loop returned: process_message returns the success dict.
TurnReturns ==
    /\ pc = "done"
    /\ turn_result' = TurnSuccess(LoopResult.text, filter_result.skill_id)
    /\ pc' = "returned"
    /\ UNCHANGED << registered, fixed_skill_id, skill_store, service_calls, online_memories,
                    filter_result >>
    /\ UNCHANGED << loop_locals, TurnFrame >>

\* _agent_loop raised: the outer `except Exception` returns the failure dict.
TurnFails ==
    /\ pc = "raised"
    /\ turn_result' = TurnFailure("llm_error")
    /\ pc' = "failed"
    /\ UNCHANGED << registered, fixed_skill_id, skill_store, service_calls, online_memories,
                    filter_result >>
    /\ UNCHANGED << loop_locals, TurnFrame >>

TurnNext ==
    \/ GenerateEmbedding
    \/ LoadFixedSkill
    \/ RecallForFixedSkill
    \/ RetrieveSkills
    \/ GatherRecallAndFilter
    \/ PrepareToolsAndPrompt
    \/ LLMRaises
    \/ LLMNoChoices
    \/ LLMAnswers(SessionContents)
    \/ LLMRequestsTools(SessionBatches, SessionContents)
    \/ ExecuteTool(SessionOutcomes)
    \/ RecordBatch
    \/ FinalizeResponds(SessionContents)
    \/ FinalizeRaises
    \/ TurnReturns
    \/ TurnFails

TurnSpec == TurnInit /\ [][TurnNext]_vars

(***************************************************************************)
(* SessionManager: the process-wide map of sessions, called on its own.    *)
(***************************************************************************)

\* SessionManager.get_session: `return self._sessions.get(session_id)`.
\* The keys of the dict are UUID objects; a str is equal to none of them.
get_session(sessions, session_id) ==
    IF session_id \in DOMAIN sessions THEN sessions[session_id] ELSE NoSession

\* The session ids a caller may hand in.
SessionKeys ==
    { UuidKey(v) : v \in 1..NumUuids }
    \cup { StrKey(form, v) : form \in StrForms, v \in 1..NumUuids }

LookupInit ==
    /\ _sessions = [k \in {} |-> 0]
    /\ last_call = ManagerCall("none", NoKey, NoSession)
    /\ pc = "manager"
    /\ turn = 0
    /\ tools = << >>
    /\ conversation_history = << >>
    /\ messages = << >>
    /\ LoopEntry
    /\ AgentIdle
    /\ ToolIdle
    /\ TurnIdle
    /\ StoreIdle
    /\ CadIdle

\* SessionManager.create_session: a state with a fresh uuid4() is stored
\* under its session_id.
create_session ==
    /\ pc = "manager"
    /\ \E value \in 1..NumUuids :
        /\ UuidKey(value) \notin DOMAIN _sessions
        /\ _sessions' = DictSet(_sessions, UuidKey(value), NewAgentState(UuidKey(value)))
        /\ last_call' = ManagerCall("create_session", NoKey, NewAgentState(UuidKey(value)))
    /\ UNCHANGED LookupFrame

\* A call of SessionManager.get_session.
GetSession ==
    /\ pc = "manager"
    /\ \E session_id \in SessionKeys :
        last_call' = ManagerCall("get_session", session_id,
                                 get_session(_sessions, session_id))
    /\ UNCHANGED _sessions
    /\ UNCHANGED LookupFrame

\* SessionManager.delete_session
delete_session ==
    /\ pc = "manager"
    /\ \E session_id \in SessionKeys :
        /\ _sessions' = IF session_id \in DOMAIN _sessions
                        THEN [k \in DOMAIN _sessions \ {session_id} |-> _sessions[k]]
                        ELSE _sessions
        /\ last_call' = ManagerCall("delete_session", session_id, NoSession)
    /\ UNCHANGED LookupFrame

LookupNext ==
    \/ create_session
    \/ GetSession
    \/ delete_session

LookupSpec == LookupInit /\ [][LookupNext]_vars

(***************************************************************************)
(* SkillService.get_skill_by_id over the skill folders and the database.   *)
(***************************************************************************)

\* A folder skills_path/<id>: its config.json is there and enabled, there and
\* disabled, there and not loadable as a SkillConfig, or missing; or the
\* config is there and skill.md is missing.
Folder(id, state) == [id |-> id, state |-> state]

FolderStates == { "enabled", "disabled", "malformed", "no_config", "no_skill_md" }

\* The skill ids of the store.
SkillIds == { "skill_a", "skill_b" }

\* FileSystemSkillLoader._create_skill_object: the Skill made of config.json
\* and skill.md.
FolderSkill(id) == [id |-> id, tool_set |-> << "inspect_region" >>, prompt_template |-> "skill_md"]

\* The row of the skills table.
DatabaseSkill(id) == Skill(id, << "get_cad_metadata" >>)

\* FileSystemSkillLoader.skill_exists: the folder, config.json and skill.md
\* are all there.
skill_exists(fs, skill_id) ==
    \E folder \in fs :
        folder.id = skill_id /\ folder.state \in { "enabled", "disabled", "malformed" }

\* FileSystemSkillLoader.load_skill: None without the folder or with
\* `enabled: false`; ValueError (or the JSON / SkillConfig error) when a file
\* is missing or the config does not load.
load_skill(fs, skill_id) ==
    IF ~\E folder \in fs : folder.id = skill_id
    THEN [outcome |-> "returned", skill |-> NoSkill]
    ELSE LET folder == CHOOSE f \in fs : f.id = skill_id
         IN CASE folder.state \in { "no_config", "malformed", "no_skill_md" } ->
                    [outcome |-> "raised", skill |-> NoSkill]
              [] folder.state = "disabled" -> [outcome |-> "returned", skill |-> NoSkill]
              [] OTHER -> [outcome |-> "returned", skill |-> FolderSkill(skill_id)]

\* `result.scalar_one_or_none()` of `select(Skill).where(Skill.id == skill_id)`
scalar_one_or_none(db, skill_id) ==
    IF \E row \in db : row.id = skill_id
    THEN CHOOSE row \in db : row.id = skill_id
    ELSE NoSkill

\* The folders and the rows a SkillService may find: each id has no folder
\* or a folder in one of the states, and a row or none.
Filesystems ==
    { fs \in SUBSET { Folder(id, state) : id \in SkillIds, state \in FolderStates } :
        \A f, g \in fs : f.id = g.id => f = g }

Databases == SUBSET { DatabaseSkill(id) : id \in SkillIds }

StoreInit ==
    /\ filesystem \in Filesystems
    /\ database \in Databases
    /\ enable_filesystem \in BOOLEAN
    /\ skill_lookup = [skill_id |-> None, outcome |-> "none"]
    /\ pc = "service"
    /\ turn = 0
    /\ tools = << >>
    /\ conversation_history = << >>
    /\ messages = << >>
    /\ LoopEntry
    /\ AgentIdle
    /\ ToolIdle
    /\ TurnIdle
    /\ LookupIdle
    /\ CadIdle

\* SkillService.get_skill_by_id: the filesystem first when it is enabled and
\* skill_exists, the database otherwise.
GetSkillById ==
    /\ pc = "service"
    /\ \E skill_id \in SkillIds :
        LET loaded == IF enable_filesystem /\ skill_exists(filesystem, skill_id)
                      THEN load_skill(filesystem, skill_id)
                      ELSE [outcome |-> "returned",
                            skill |-> scalar_one_or_none(database, skill_id)]
        IN skill_lookup' = [skill_id |-> skill_id, outcome |-> loaded.outcome,
                            skill |-> loaded.skill]
    /\ UNCHANGED << filesystem, database, enable_filesystem >>
    /\ UNCHANGED StoreFrame

StoreNext == GetSkillById

StoreSpec == StoreInit /\ [][StoreNext]_vars

(***************************************************************************)
(* The CAD tools: extract_cad_entities and inspect_region over one drawing.*)
(***************************************************************************)

\* The entities of a drawing: a LINE from start to end, a POINT, an INSERT
\* with the virtual entities of its block.
Line(x1, y1, x2, y2) ==
    [type |-> "LINE", start |-> << x1, y1 >>, end |-> << x2, y2 >>, virtual |-> << >>]

Point(x, y) == [type |-> "POINT", start |-> << x, y >>, end |-> << x, y >>, virtual |-> << >>]

Insert(virtual) ==
    [type |-> "INSERT", start |-> << 0, 0 >>, end |-> << 0, 0 >>, virtual |-> virtual]

\* `None` for a box
NoBox == << >>

Min2(a, b) == IF a <= b THEN a ELSE b

Max2(a, b) == IF a >= b THEN a ELSE b

\* _iter_entities_with_virtual: the virtual entities of an INSERT, then the
\* INSERT itself; every other entity as it is.
RECURSIVE _iter_entities_with_virtual(_)
_iter_entities_with_virtual(entities) ==
    IF entities = << >> THEN << >>
    ELSE (IF Head(entities).type = "INSERT" THEN Head(entities).virtual ELSE << >>)
         \o << Head(entities) >> \o _iter_entities_with_virtual(Tail(entities))

\* The model space without the blocks' virtual entities.
IterEntitiesOnly(entities) == entities

\* cad_renderer._entity_bbox: the box of a LINE; None for a type it has no
\* case for.
_entity_bbox(entity) ==
    IF entity.type = "LINE"
    THEN << Min2(entity.start[1], entity.end[1]), Min2(entity.start[2], entity.end[2]),
            Max2(entity.start[1], entity.end[1]), Max2(entity.start[2], entity.end[2]) >>
    ELSE NoBox

\* cad_renderer._bbox_tuple
_bbox_tuple(b) == << b.x, b.y, b.x + b.width, b.y + b.height >>

\* cad_renderer._boxes_intersect
_boxes_intersect(box_a, box_b) ==
    IF box_a = NoBox THEN FALSE
    ELSE ~(\/ box_a[3] < box_b[1]
           \/ box_a[1] > box_b[3]
           \/ box_a[4] < box_b[2]
           \/ box_a[2] > box_b[4])

\* cad_renderer.entity_intersects_bbox
entity_intersects_bbox(entity, b) ==
    IF _entity_bbox(entity) = NoBox THEN FALSE
    ELSE _boxes_intersect(_entity_bbox(entity), _bbox_tuple(b))

\* `entities[:100]`
ReturnedEntities == 100

\* extract_cad_entities without entity_types and layers: the entities kept,
\* the first hundred of them returned, all of them counted by type.
ExtractKept(entities, b) ==
    SelectSeq(_iter_entities_with_virtual(entities),
              LAMBDA entity : ~b.given \/ entity_intersects_bbox(entity, b))

\* The dict of counts by dxftype of a list of entities.
CountByType(entities) ==
    [t \in { entities[i].type : i \in DOMAIN entities } |->
        Cardinality({ i \in DOMAIN entities : entities[i].type = t })]

\* sum(d.values())
RECURSIVE SumValues(_)
SumValues(d) ==
    IF DOMAIN d = {} THEN 0
    ELSE LET k == CHOOSE k \in DOMAIN d : TRUE
         IN d[k] + SumValues([j \in DOMAIN d \ {k} |-> d[j]])

extract_cad_entities(entities, b) ==
    LET kept == ExtractKept(entities, b)
    IN [pending |-> FALSE, success |-> TRUE,
        entities |-> SubSeq(kept, 1, Min2(Len(kept), ReturnedEntities)),
        total_count |-> Len(kept),
        entity_count |-> CountByType(kept)]

\* inspect_region's entity_summary for the entities iterated over: the
\* counts by type of those that intersect the bbox, and their sum.
InspectSummary(yielded, b) ==
    LET kept == SelectSeq(yielded, LAMBDA entity : entity_intersects_bbox(entity, b))
    IN [pending |-> FALSE, success |-> TRUE,
        by_type |-> CountByType(kept),
        total_count |-> SumValues(CountByType(kept))]

\* inspect_region that counts the model space only.
InspectModelSpaceOnly(entities, b) == InspectSummary(IterEntitiesOnly(entities), b)

\* inspect_region: a failure for an empty region or a failed rendering,
\* the summary otherwise.
inspect_region(entities, b) == InspectSummary(_iter_entities_with_virtual(entities), b)

\* {"success": False, "error": ...}
CadFailure == [pending |-> FALSE, success |-> FALSE]

\* The entities drawings are made of, on a grid of five by five.
EntityPool ==
    { Line(0, 0, 1, 1), Line(0, 4, 4, 0), Line(3, 3, 4, 4), Line(1, 2, 1, 3),
      Point(1, 1), Point(4, 4),
      Insert(<< Line(0, 1, 1, 0), Point(0, 0) >>), Insert(<< Line(3, 4, 4, 4) >>) }

\* The number of entities of a model space.
MaxEntities == 2

ModelSpaces == UNION { [1..n -> EntityPool] : n \in 0..MaxEntities }

Regions == { Bbox(0, 0, 1, 1), Bbox(1, 1, 2, 2), Bbox(2, 2, 0, 1) }

CadInit ==
    /\ msp \in ModelSpaces
    /\ bbox \in Regions
    /\ extract_result = PendingResult
    /\ inspect_result = PendingResult
    /\ BoundsIdle
    /\ pc = "cad"
    /\ turn = 0
    /\ tools = << >>
    /\ conversation_history = << >>
    /\ messages = << >>
    /\ LoopEntry
    /\ AgentIdle
    /\ ToolIdle
    /\ TurnIdle
    /\ LookupIdle
    /\ StoreIdle

\* A call extract_cad_entities(file_path, bbox=bbox).
ExtractEntities ==
    /\ pc = "cad"
    /\ extract_result = PendingResult
    /\ extract_result' = extract_cad_entities(msp, bbox)
    /\ UNCHANGED << msp, bbox, inspect_result, boxes, bounds_result >>
    /\ UNCHANGED CadFrame

\* A call inspect_region(file_path, x, y, width, height) with the same bbox;
\* render_drawing_region succeeds or fails.
InspectRegion ==
    /\ pc = "cad"
    /\ inspect_result = PendingResult
    /\ \E rendered \in BOOLEAN :
        inspect_result' =
            IF bbox.width <= 0 \/ bbox.height <= 0 \/ ~rendered
            THEN CadFailure
            ELSE inspect_region(msp, bbox)
    /\ UNCHANGED << msp, bbox, extract_result, boxes, bounds_result >>
    /\ UNCHANGED CadFrame

CadNext ==
    \/ ExtractEntities
    \/ InspectRegion

CadSpec == CadInit /\ [][CadNext]_vars

(***************************************************************************)
(* cad_renderer.get_renderable_bounds and its outlier filter.  Coordinates *)
(* are integers; a centre is kept as twice its value and a quantile as     *)
(* eight times its value, so that the arithmetic of the code is exact.     *)
(***************************************************************************)

\* `if len(boxes) < 20: return boxes`
MinFilteredCount == 20

\* `max(10, int(len(boxes) * 0.2))`
MinKeptCount == 10

\* Where the outliers of the drawings lie, and how many a drawing has.
OutlierAt == 1000000

MaxOutliers == 6

\* sorted(values)
RECURSIVE sorted(_)
sorted(values) ==
    IF values = << >> THEN << >>
    ELSE LET rest == sorted(Tail(values))
             before == SelectSeq(rest, LAMBDA v : v <= Head(values))
             after == SelectSeq(rest, LAMBDA v : v > Head(values))
         IN before \o << Head(values) >> \o after

\* cad_renderer._quantile for q = quarters/4, times four:
\* values[low] * (1 - frac) + values[high] * frac.
_quantile(values, quarters) ==
    IF values = << >> THEN 0
    ELSE LET pos4 == (Len(values) - 1) * quarters
             low == pos4 \div 4
             high == Min2(low + 1, Len(values) - 1)
             frac4 == pos4 % 4
         IN values[low + 1] * (4 - frac4) + values[high + 1] * frac4

\* Twice the centre of a box on each axis.
CentreX(box) == box[1] + box[3]

CentreY(box) == box[2] + box[4]

\* The boxes whose centre lies within q1 - 4 iqr .. q3 + 4 iqr on both axes.
WithinFences(bs) ==
    LET centres_x == sorted([i \in DOMAIN bs |-> CentreX(bs[i])])
        centres_y == sorted([i \in DOMAIN bs |-> CentreY(bs[i])])
        q1x == _quantile(centres_x, 1)
        q3x == _quantile(centres_x, 3)
        q1y == _quantile(centres_y, 1)
        q3y == _quantile(centres_y, 3)
        iqr_x == Max2(q3x - q1x, 8)
        iqr_y == Max2(q3y - q1y, 8)
    IN SelectSeq(bs, LAMBDA box :
            /\ q1x - 4 * iqr_x <= 4 * CentreX(box)
            /\ 4 * CentreX(box) <= q3x + 4 * iqr_x
            /\ q1y - 4 * iqr_y <= 4 * CentreY(box)
            /\ 4 * CentreY(box) <= q3y + 4 * iqr_y)

\* cad_renderer._filter_outlier_boxes
_filter_outlier_boxes(bs) ==
    IF Len(bs) < MinFilteredCount THEN bs
    ELSE IF Len(WithinFences(bs)) < Max2(MinKeptCount, Len(bs) \div 5) THEN bs
         ELSE WithinFences(bs)

\* The largest and the smallest of the values of a non-empty list.
MaxOf(values) == CHOOSE v \in { values[i] : i \in DOMAIN values } :
                    \A i \in DOMAIN values : values[i] <= v

MinOf(values) == CHOOSE v \in { values[i] : i \in DOMAIN values } :
                    \A i \in DOMAIN values : values[i] >= v

\* cad_renderer._merge_boxes
_merge_boxes(bs) ==
    << MinOf([i \in DOMAIN bs |-> bs[i][1]]), MinOf([i \in DOMAIN bs |-> bs[i][2]]),
       MaxOf([i \in DOMAIN bs |-> bs[i][3]]), MaxOf([i \in DOMAIN bs |-> bs[i][4]]) >>

\* get_renderable_bounds, from the boxes of the renderable entities on.
get_renderable_bounds(bs) ==
    IF bs = << >> THEN [pending |-> FALSE, success |-> FALSE]
    ELSE LET filtered == _filter_outlier_boxes(bs)
             merged == _merge_boxes(filtered)
         IN [pending |-> FALSE, success |-> TRUE,
             min_x |-> merged[1], min_y |-> merged[2],
             max_x |-> merged[3], max_y |-> merged[4],
             raw_entity_count |-> Len(bs), used_entity_count |-> Len(filtered)]

\* The box of the i-th line of the dense cluster: from (0, 10 i) to (500, 10 i).
ClusterBox(i) == << 0, 10 * i, 500, 10 * i >>

\* The box of an outlier: far away on the x axis, the y axis or both.
OutlierBox(axes) ==
    << IF axes = "y" THEN 0 ELSE OutlierAt, IF axes = "x" THEN 0 ELSE OutlierAt,
       IF axes = "y" THEN 10 ELSE OutlierAt + 10, IF axes = "x" THEN 10 ELSE OutlierAt + 10 >>

\* A drawing of n boxes, the last k of them outliers.
Drawing(n, k, axes) == [i \in 1..n |-> IF i <= n - k THEN ClusterBox(i) ELSE OutlierBox(axes)]

\* The numbers of boxes of the drawings: below, at and above the filter's
\* threshold.
BoxCounts == { MinFilteredCount - 1, MinFilteredCount, MinFilteredCount + 1,
               MinFilteredCount + 4 }

BoundsInit ==
    /\ \E n \in BoxCounts, k \in 0..MaxOutliers, axes \in { "x", "y", "xy" } :
          boxes = Drawing(n, k, axes)
    /\ bounds_result = PendingResult
    /\ RegionIdle
    /\ pc = "bounds"
    /\ turn = 0
    /\ tools = << >>
    /\ conversation_history = << >>
    /\ messages = << >>
    /\ LoopEntry
    /\ AgentIdle
    /\ ToolIdle
    /\ TurnIdle
    /\ LookupIdle
    /\ StoreIdle

\* A call of get_renderable_bounds on the drawing.
GetRenderableBounds ==
    /\ pc = "bounds"
    /\ bounds_result = PendingResult
    /\ bounds_result' = get_renderable_bounds(boxes)
    /\ UNCHANGED << msp, bbox, extract_result, inspect_result, boxes >>
    /\ UNCHANGED CadFrame

BoundsNext == GetRenderableBounds

BoundsSpec == BoundsInit /\ [][BoundsNext]_vars

(***************************************************************************)
(* One MemoryDrivenAgent over its turns: which LLM client the loop of each *)
(* turn runs on.                                                           *)
(***************************************************************************)

MaxAgentTurns == 3

\* Skill.model_config: provider, model name, supports_vision.
ModelConfig(provider, name, supports_vision) ==
    [provider |-> provider, name |-> name, supports_vision |-> supports_vision]

\* skill_config = None
NoConfig == ModelConfig("none", "none", FALSE)

\* The skills the SkillService can load and the model_config of each.
AgentSkills ==
    ("cad" :> ModelConfig("moonshot", "kimi", TRUE))
    @@ ("viewer" :> ModelConfig("moonshot", "kimi", TRUE))
    @@ ("todo" :> ModelConfig("deepseek", "deepseek-chat", FALSE))

\* The skill ids a turn may ask for: the skills above and one that does
\* not load.
AgentSkillIds == DOMAIN AgentSkills \cup { "missing" }

\* `skill_config = {"model": skill.model_config, ...}` of the skill loaded,
\* None when no skill was selected or it does not load.
SkillConfig(skill_id) ==
    IF skill_id \in DOMAIN AgentSkills THEN AgentSkills[skill_id] ELSE NoConfig

\* create_llm_client(skill_config=..., use_reasoner=...): the client of the
\* provider and model the config names, the default client without one.
create_llm_client(skill_config) ==
    [model |-> IF skill_config = NoConfig THEN "default" ELSE skill_config.name]

\* An entry of the log: the skill id of the turn, its skill_config, whether
\* _agent_loop was entered and the client it ran on.
TurnClient(skill_id, skill_config, entered, client) ==
    [skill_id |-> skill_id, skill_config |-> skill_config, entered |-> entered,
     client |-> client]

AgentInit ==
    /\ llm_client = NoClient
    /\ client_log = << >>
    /\ tasks = << >>
    /\ trace_log = << >>
    /\ fixed_skill_id \in { None, "cad", "missing" }
    /\ registered = RegisteredTools
    /\ skill_store = {}
    /\ service_calls = << >>
    /\ online_memories = << >>
    /\ filter_result = [skill_id |-> None]
    /\ turn_result = [pending |-> TRUE]
    /\ pc = "agent"
    /\ turn = 0
    /\ tools = << >>
    /\ conversation_history = << >>
    /\ messages = << >>
    /\ LoopEntry
    /\ ToolIdle
    /\ LookupIdle
    /\ StoreIdle
    /\ CadIdle

\* A turn that ends in the outer `except Exception` before a skill is
\* selected (generate raised): the client is left as it is.
TurnFailsEarly ==
    /\ pc = "agent"
    /\ Len(client_log) < MaxAgentTurns
    /\ client_log' = Append(client_log, TurnClient(None, NoConfig, FALSE, llm_client))
    /\ UNCHANGED << llm_client, tasks, trace_log >>
    /\ UNCHANGED AgentFrame

\* A turn in fixed-skill mode: the skill is loaded and
\* `self._initialize_llm_client(skill_config)` is called, or the turn
\* returns the failure dict.
FixedSkillTurn ==
    /\ pc = "agent"
    /\ Len(client_log) < MaxAgentTurns
    /\ fixed_skill_id # None
    /\ IF fixed_skill_id \in DOMAIN AgentSkills
       THEN /\ llm_client' = create_llm_client(SkillConfig(fixed_skill_id))
            /\ client_log' = Append(client_log,
                   TurnClient(fixed_skill_id, SkillConfig(fixed_skill_id), TRUE, llm_client'))
       ELSE /\ llm_client' = llm_client
            /\ client_log' = Append(client_log,
                   TurnClient(fixed_skill_id, NoConfig, FALSE, llm_client))
    /\ UNCHANGED << tasks, trace_log >>
    /\ UNCHANGED AgentFrame

\* A turn in automatic mode, the filter having answered skill_id:
\* `if self.llm_client is None: self._initialize_llm_client(skill_config)`.
AutomaticTurn ==
    /\ pc = "agent"
    /\ Len(client_log) < MaxAgentTurns
    /\ fixed_skill_id = None
    /\ \E skill_id \in AgentSkillIds \cup { None } :
          /\ llm_client' = IF llm_client = NoClient
                           THEN create_llm_client(SkillConfig(skill_id))
                           ELSE llm_client
          /\ client_log' = Append(client_log,
                 TurnClient(skill_id, SkillConfig(skill_id), TRUE, llm_client'))
    /\ UNCHANGED << tasks, trace_log >>
    /\ UNCHANGED AgentFrame

AgentNext ==
    \/ TurnFailsEarly
    \/ FixedSkillTurn
    \/ AutomaticTurn

AgentSpec == AgentInit /\ [][AgentNext]_vars

(***************************************************************************)
(* Turns running concurrently on one event loop, each a process_message    *)
(* coroutine, and the trace log they append to.                            *)
(***************************************************************************)

NumTasks == 2

\* A coroutine: where it stands, the iteration traces of its loop so far,
\* the lines of its block in the file, and what
\* _append_detailed_trace_log returned (the path, or None).
Task(at, traces, written, returned) ==
    [pc |-> at, traces |-> traces, written |-> written, returned |-> returned]

\* A line of the log: the turn that wrote it, its place in the block and
\* whether it is the closing "---" of the block.
TraceLine(task, line, last) == [task |-> task, line |-> line, last |-> last]

\* `lines`: the header, the user prompt, "### Iteration Trace" with an
\* entry per iteration or "- (no trace captured)", the final answer and
\* the rule.
TraceBlock(task, traces) ==
    [i \in 1..(5 + Max2(traces, 1)) |-> TraceLine(task, i, i = 5 + Max2(traces, 1))]

\* A write per line, the coroutine suspended between the lines.
WriteSizeLineByLine(lines) == 1

\* `f.write("\n".join(lines))`: the lines left are written by one call, in
\* a function that has no await.
WriteSize(lines) == Len(lines)

TraceInit ==
    /\ tasks = [t \in 1..NumTasks |-> Task("idle", 0, 0, None)]
    /\ trace_log = << >>
    /\ llm_client = NoClient
    /\ client_log = << >>
    /\ pc = "tasks"
    /\ turn = 0
    /\ tools = << >>
    /\ conversation_history = << >>
    /\ messages = << >>
    /\ LoopEntry
    /\ ToolIdle
    /\ TurnIdle
    /\ LookupIdle
    /\ StoreIdle
    /\ CadIdle

\* process_message is called and runs up to the first await of its loop.
TaskStarts(t) ==
    /\ tasks[t].pc = "idle"
    /\ tasks' = [tasks EXCEPT ![t] = Task("loop", 0, 0, None)]
    /\ UNCHANGED << trace_log, llm_client, client_log >>
    /\ UNCHANGED AgentFrame

\* `await self.llm_client.chat_completion(...)` returns: the loop records
\* the iteration and goes on to its next await.
LoopAwaits(t) ==
    /\ tasks[t].pc = "loop"
    /\ tasks[t].traces < max_iterations
    /\ tasks' = [tasks EXCEPT ![t] = Task("loop", tasks[t].traces + 1, 0, None)]
    /\ UNCHANGED << trace_log, llm_client, client_log >>
    /\ UNCHANGED AgentFrame

\* _agent_loop returns its result.
LoopReturns(t) ==
    /\ tasks[t].pc = "loop"
    /\ tasks' = [tasks EXCEPT ![t] = Task("trace", tasks[t].traces, 0, None)]
    /\ UNCHANGED << trace_log, llm_client, client_log >>
    /\ UNCHANGED AgentFrame

\* An exception leaves _agent_loop: process_message returns the failure
\* dict without calling _append_detailed_trace_log.
LoopRaisesOut(t) ==
    /\ tasks[t].pc = "loop"
    /\ tasks' = [tasks EXCEPT ![t] = Task("failed", tasks[t].traces, 0, None)]
    /\ UNCHANGED << trace_log, llm_client, client_log >>
    /\ UNCHANGED AgentFrame

\* _append_detailed_trace_log: the block is built and appended to the file
\* opened in mode "a"; an OSError of mkdir or open is caught and None is
\* returned.
AppendTrace(t) ==
    /\ tasks[t].pc = "trace"
    /\ LET block == TraceBlock(t, tasks[t].traces)
           left == SubSeq(block, tasks[t].written + 1, Len(block))
           size == WriteSize(left)
       IN \/ /\ trace_log' = trace_log \o SubSeq(left, 1, size)
             /\ tasks' = [tasks EXCEPT ![t] =
                    IF size = Len(left)
                    THEN Task("done", tasks[t].traces, Len(block), "path")
                    ELSE Task("trace", tasks[t].traces, tasks[t].written + size, None)]
          \/ /\ tasks[t].written = 0
             /\ trace_log' = trace_log
             /\ tasks' = [tasks EXCEPT ![t] = Task("done", tasks[t].traces, 0, None)]
    /\ UNCHANGED << llm_client, client_log >>
    /\ UNCHANGED AgentFrame

TraceNext ==
    \E t \in 1..NumTasks :
       \/ TaskStarts(t)
       \/ LoopAwaits(t)
       \/ LoopReturns(t)
       \/ LoopRaisesOut(t)
       \/ AppendTrace(t)

TraceSpec == TraceInit /\ [][TraceNext]_vars

(***************************************************************************)
(* Properties.                                                             *)
(***************************************************************************)

\* The signature "<name>:<sorted-key JSON args>" of a call, as a value that
\* does not depend on the order the keys were written in.
ClaimSignature(name, args) ==
    << name, args.object, {args.items[i] : i \in DOMAIN args.items} >>

\* Whether a parsed_args value is the parsed arguments (not the raw text).
ArgsParsed(args) == "_raw_arguments" \notin DictKeys(args)

\* The tool calls handled so far in this turn, in order: those recorded in
\* all_tool_calls, then those of the batch _execute_tools is working on.
HandledCalls ==
    [i \in DOMAIN all_tool_calls |->
        [name |-> all_tool_calls[i].name, args |-> all_tool_calls[i].args,
         result |-> all_tool_calls[i].result, cached |-> all_tool_calls[i].cached,
         signature |-> all_tool_calls[i].signature]]
    \o (IF pc = "exec"
        THEN [i \in DOMAIN tool_results |->
                [name |-> tool_calls[i].name, args |-> ParsedArgs(tool_calls[i].arguments),
                 result |-> tool_results[i], cached |-> tool_exec_infos[i].cached,
                 signature |-> tool_exec_infos[i].signature]]
        ELSE << >>)

\* C1: within one _agent_loop invocation the registry's execute_tool is
\* invoked at most once per tool signature; the first call with a signature
\* is the one executed (cached = false), and every later call with that
\* signature gets the first call's sanitized result and cached = true.
C1_ExecutedOncePerSignature ==
    /\ \A i, j \in DOMAIN executed :
          ClaimSignature(executed[i].tool_name, executed[i].kwargs)
            = ClaimSignature(executed[j].tool_name, executed[j].kwargs) => i = j
    /\ \A j \in DOMAIN HandledCalls :
          ArgsParsed(HandledCalls[j].args) =>
            LET same == {i \in 1..j : /\ ArgsParsed(HandledCalls[i].args)
                                      /\ ClaimSignature(HandledCalls[i].name, HandledCalls[i].args)
                                           = ClaimSignature(HandledCalls[j].name, HandledCalls[j].args)}
                first == CHOOSE i \in same : \A k \in same : i <= k
            IN /\ HandledCalls[j].cached = (first # j)
               /\ HandledCalls[j].result = HandledCalls[first].result
               /\ \E e \in DOMAIN executed :
                     ClaimSignature(executed[e].tool_name, executed[e].kwargs)
                       = ClaimSignature(HandledCalls[j].name, HandledCalls[j].args)

\* A turn has ended in which one signature was called in two iterations and
\* twice in one batch, with its keys written in different orders, and the
\* registry ran it once.
C1_Witness ==
    /\ pc = "done"
    /\ Len(executed) = 1
    /\ Len(all_tool_calls) >= 3
    /\ \E i, j \in DOMAIN all_tool_calls :
          /\ i < j
          /\ all_tool_calls[i].args # all_tool_calls[j].args
          /\ all_tool_calls[i].signature = all_tool_calls[j].signature
          /\ all_tool_calls[j].cached
    /\ \E t \in DOMAIN iteration_traces :
          /\ Len(iteration_traces[t].tool_calls) >= 2
          /\ iteration_traces[t].tool_calls[1].signature
               = iteration_traces[t].tool_calls[2].signature
          /\ iteration_traces[t].tool_calls[2].cached

\* Whether a response asks for tool calls (`if not tool_calls` is false).
RequestsTools(response) == response.kind = "message" /\ response.tool_calls # << >>

\* Whether the n-th chat_completion call of the turn was made in the loop and
\* answered with tool calls.
AnsweredWithTools(n) ==
    /\ n \in DOMAIN llm_calls
    /\ ~llm_calls[n].final
    /\ RequestsTools(llm_calls[n].response)

\* The text of the responses to the first n chat_completion calls, in order.
RECURSIVE ResponseText(_)
ResponseText(n) ==
    IF n = 0 THEN EmptyStr
    ELSE ResponseText(n - 1)
         \o (IF llm_calls[n].response.kind = "message"
             THEN OrEmpty(llm_calls[n].response.content) ELSE EmptyStr)

\* The positions of the finalization order in the message list.
FinalizeOrders == {m \in DOMAIN messages : messages[m] = FinalizeOrder}

\* C2: once the LLM has answered each of the max_iterations iterations with
\* tool calls and the last batch has been recorded, the finalization order is
\* the last message of the list (appended once), and the LLM is called exactly
\* once more, with that list and an empty tool list; a non-empty content of
\* that response ends the returned text and is the last message of the
\* session history, as an assistant message; otherwise text and history stay.
C2_ForcedFinalization ==
    ( /\ \A n \in 1..max_iterations : AnsweredWithTools(n)
      /\ Len(iteration_traces) >= max_iterations )
    =>
    /\ pc \in {"final", "done"}
    /\ Cardinality(FinalizeOrders) = 1
    /\ messages[Len(messages)] = FinalizeOrder
    /\ pc = "final" => Len(llm_calls) = max_iterations
    /\ pc = "done" =>
        /\ Len(llm_calls) = max_iterations + 1
        /\ LET final == llm_calls[max_iterations + 1]
               last == conversation_history[Len(conversation_history)]
               final_content == IF final.response.kind = "message"
                                THEN OrEmpty(final.response.content) ELSE EmptyStr
           IN /\ final.final
              /\ final.tools = << >>
              /\ final.messages = messages
              /\ LoopResult.text = ResponseText(max_iterations) \o final_content
              /\ IF final_content # EmptyStr
                 THEN last = Message("assistant", final_content, << >>, None, NoEnvelope)
                 ELSE last.role = "tool"

\* A turn whose every iteration asked for tools has ended with a finalization
\* call that returned a text.
C2_Witness ==
    /\ pc = "done"
    /\ \A n \in 1..max_iterations : AnsweredWithTools(n)
    /\ Len(llm_calls) = max_iterations + 1
    /\ llm_calls[max_iterations + 1].response.kind = "message"
    /\ llm_calls[max_iterations + 1].response.content = <<"text">>
    /\ llm_calls[max_iterations + 1].tools = << >>
    /\ tools # << >>

\* C3: the iteration counter never exceeds max_iterations; an invocation makes
\* at most max_iterations chat_completion calls in the loop and at most one
\* after it; the `iterations` it returns lies in 1..max_iterations; and, every
\* awaited call returning or raising, the invocation ends.
C3_BoundedLoop ==
    /\ [](/\ iteration <= max_iterations
          /\ Cardinality({n \in DOMAIN llm_calls : ~llm_calls[n].final}) <= max_iterations
          /\ Cardinality({n \in DOMAIN llm_calls : llm_calls[n].final}) <= 1
          /\ Len(llm_calls) <= max_iterations + 1
          /\ pc = "done" => LoopResult.iterations \in 1..max_iterations)
    /\ <>(pc \in {"done", "raised"})

\* An invocation has returned after max_iterations + 1 chat_completion calls.
C3_Witness ==
    /\ pc = "done"
    /\ LoopResult.iterations = max_iterations
    /\ Len(llm_calls) = max_iterations + 1

\* The number of recorded calls of this turn with the given signature.
Occurrences(signature) ==
    Cardinality({i \in DOMAIN all_tool_calls : all_tool_calls[i].signature = signature})

\* The number of calls with the given signature recorded in the traces of
\* the iterations up to and including iter.
OccurrencesUpTo(signature, iter) ==
    Cardinality(UNION { { <<t, i>> : i \in {j \in DOMAIN iteration_traces[t].tool_calls :
                                    iteration_traces[t].tool_calls[j].signature = signature} } :
                        t \in {u \in DOMAIN iteration_traces :
                                 iteration_traces[u].iteration <= iter} })

\* The repeat_signature records of loop_advisories for a signature.
RepeatAdvisories(signature) ==
    {a \in DOMAIN loop_advisories :
        /\ loop_advisories[a].type = "repeat_signature"
        /\ loop_advisories[a].signature = signature}

\* The repeat-signature system advisories in the message list.
RepeatHints == {m \in DOMAIN messages :
                  /\ messages[m].role = "system"
                  /\ Len(messages[m].content) = 2
                  /\ messages[m].content[1] = "repeat_hint"}

\* C4: a signature recorded fewer than loop_review_repeat_threshold times in
\* the turn has no repeat advisory; one recorded that often or more has exactly
\* one, made in the iteration of the call that brought its count to the
\* threshold and with that count; and the repeat-signature system messages of
\* the list are as many, tool by tool, as the repeat_signature records.
C4_RepeatAdvisoryOnce ==
    /\ \A i \in DOMAIN all_tool_calls :
         LET signature == all_tool_calls[i].signature
         IN signature # NoSignature =>
              IF Occurrences(signature) < loop_review_repeat_threshold
              THEN RepeatAdvisories(signature) = {}
              ELSE /\ Cardinality(RepeatAdvisories(signature)) = 1
                   /\ \A a \in RepeatAdvisories(signature) :
                        /\ loop_advisories[a].repeat_count = loop_review_repeat_threshold
                        /\ OccurrencesUpTo(signature, loop_advisories[a].iteration)
                             >= loop_review_repeat_threshold
                        /\ OccurrencesUpTo(signature, loop_advisories[a].iteration - 1)
                             < loop_review_repeat_threshold
    /\ \A a \in DOMAIN loop_advisories :
         loop_advisories[a].type = "repeat_signature" =>
           /\ loop_advisories[a].signature # NoSignature
           /\ Occurrences(loop_advisories[a].signature) >= loop_review_repeat_threshold
    /\ \A name \in RegisteredTools :
         Cardinality({m \in RepeatHints : messages[m].content[2] = name})
           = Cardinality({a \in DOMAIN loop_advisories :
                            /\ loop_advisories[a].type = "repeat_signature"
                            /\ loop_advisories[a].tool = name})

\* A signature has been called more often than the threshold, and the turn
\* has ended with one advisory for it.
C4_Witness ==
    /\ pc = "done"
    /\ \E i \in DOMAIN all_tool_calls :
         /\ all_tool_calls[i].signature # NoSignature
         /\ Occurrences(all_tool_calls[i].signature) > loop_review_repeat_threshold
         /\ Cardinality(RepeatAdvisories(all_tool_calls[i].signature)) = 1
    /\ Cardinality(RepeatHints) = 1

\* C5: every tool message of the session history comes after an assistant
\* message of the same history whose tool_calls hold its tool_call_id.
C5_ToolMessageFollowsItsCall ==
    \A i \in DOMAIN conversation_history :
        conversation_history[i].role = "tool" =>
          \E j \in 1..(i - 1) :
             /\ conversation_history[j].role = "assistant"
             /\ \E k \in DOMAIN conversation_history[j].tool_calls :
                  conversation_history[j].tool_calls[k].id
                    = conversation_history[i].tool_call_id

\* A second turn has ended on a session whose history holds tool messages
\* of both turns.
C5_Witness ==
    /\ turn = 2
    /\ pc = "done"
    /\ \E i, j, k \in DOMAIN conversation_history :
         /\ i < j /\ j < k
         /\ conversation_history[i].role = "tool"
         /\ conversation_history[j].role = "user"
         /\ conversation_history[k].role = "tool"

\* C6: _agent_loop never raises: whatever the LLM client and the tools do,
\* control never leaves the loop by an exception.
C6_NeverRaises == pc # "raised"

\* Whether the n-th chat_completion call was made in the loop and came back
\* without tool calls or without choices.
AnsweredWithoutTools(n) ==
    /\ n \in DOMAIN llm_calls
    /\ ~llm_calls[n].final
    /\ \/ llm_calls[n].response.kind = "no_choices"
       \/ /\ llm_calls[n].response.kind = "message"
          /\ llm_calls[n].response.tool_calls = << >>

\* C7: a run whose loop got a tool-less or no-choices response, in whichever
\* iteration, makes no further LLM call and appends no finalization order;
\* a finalization call is made only after max_iterations responses that all
\* requested tools.
C7_EndsOneWay ==
    /\ \A n \in DOMAIN llm_calls :
         AnsweredWithoutTools(n) =>
           /\ n = Len(llm_calls)
           /\ FinalizeOrders = {}
           /\ pc = "done"
    /\ (pc = "final" \/ \E n \in DOMAIN llm_calls : llm_calls[n].final) =>
         \A n \in 1..max_iterations : AnsweredWithTools(n)

\* The number of tool calls requested by the first n responses.
RECURSIVE RequestedUpTo(_)
RequestedUpTo(n) ==
    IF n = 0 THEN 0
    ELSE RequestedUpTo(n - 1)
         + (IF AnsweredWithTools(n) THEN Len(llm_calls[n].response.tool_calls) ELSE 0)

\* The budget advisories in the message list and in loop_advisories.
BudgetHints == {m \in DOMAIN messages : messages[m] = BudgetHint}

BudgetAdvisories ==
    {a \in DOMAIN loop_advisories : loop_advisories[a].type = "tool_budget_warning"}

\* C8: the iteration whose batch brings the turn's tool calls to
\* max_tool_calls_per_turn or beyond, and no iteration before it, gets a
\* budget system message and a tool_budget_warning record carrying the total;
\* every chat_completion call of the loop is handed the tool list the loop
\* was entered with, before and after the budget is reached, and the
\* finalization call an empty one; and a loop that was answered with tool
\* calls goes on to its next iteration while iterations remain.
C8_SoftBudget ==
    /\ \A n \in DOMAIN llm_calls :
         llm_calls[n].tools = IF llm_calls[n].final THEN << >> ELSE tools
    /\ \A t \in DOMAIN iteration_traces :
         iteration_traces[t].tool_calls # << >> =>
           LET over == RequestedUpTo(iteration_traces[t].iteration) >= max_tool_calls_per_turn
           IN /\ over <=> \E a \in DOMAIN iteration_traces[t].advisories :
                            iteration_traces[t].advisories[a] = "tool_budget_warning"
              /\ over <=> \E a \in BudgetAdvisories :
                            /\ loop_advisories[a].iteration = iteration_traces[t].iteration
                            /\ loop_advisories[a].total_tool_calls
                                 = RequestedUpTo(iteration_traces[t].iteration)
    /\ Cardinality(BudgetHints) = Cardinality(BudgetAdvisories)
    /\ \A a \in BudgetAdvisories :
         loop_advisories[a].total_tool_calls >= max_tool_calls_per_turn
    /\ ( /\ pc \in {"final", "done"}
         /\ \E n \in DOMAIN llm_calls :
              /\ AnsweredWithTools(n)
              /\ \A k \in DOMAIN llm_calls : (k > n => llm_calls[k].final) )
       => iteration >= max_iterations

\* The budget was reached in the first iteration; the loop went on to a
\* second LLM call with the tools still offered, which asked for more tools
\* and got them, and the turn ended with a finalization call without tools.
C8_Witness ==
    /\ pc = "done"
    /\ tools # << >>
    /\ Len(llm_calls) = max_iterations + 1
    /\ RequestedUpTo(1) >= max_tool_calls_per_turn
    /\ AnsweredWithTools(2)
    /\ llm_calls[2].tools = tools
    /\ Cardinality(BudgetAdvisories) >= 2
    /\ llm_calls[Len(llm_calls)].final
    /\ llm_calls[Len(llm_calls)].tools = << >>

\* The tool calls of the batch at hand whose arguments are not valid JSON.
InvalidCalls == {i \in DOMAIN tool_calls : ~tool_calls[i].arguments.valid}

\* The sum of the counts of a repeat-signature dict.
RECURSIVE SumCounts(_, _)
SumCounts(d, keys) ==
    IF keys = {} THEN 0
    ELSE LET k == CHOOSE x \in keys : TRUE
         IN d[k] + SumCounts(d, keys \ {k})

\* C9: the step of _execute_tools that handles a call whose arguments are not
\* valid JSON appends the failure result and an info with signature null and
\* cached false, leaves the registry's executions and the tool cache as they
\* were and stays in the batch; and the bookkeeping of a batch with such
\* calls records them with signature null, counts only the other calls in
\* the repeat-signature counts and goes on to the next LLM call while
\* iterations remain.
C9_InvalidArgumentsFail ==
    [][ /\ ( /\ pc = "exec"
             /\ Len(tool_results) < Len(tool_calls)
             /\ Len(tool_results) + 1 \in InvalidCalls )
          => /\ Len(tool_results') = Len(tool_results) + 1
             /\ SubSeq(tool_results', 1, Len(tool_results)) = tool_results
             /\ LET result == tool_results'[Len(tool_results')]
                IN /\ DOMAIN result.items = {"success", "error"}
                   /\ PyGet(result, "success") = PyBool(FALSE)
                   /\ IsStr(PyGet(result, "error"))
             /\ Len(tool_exec_infos') = Len(tool_exec_infos) + 1
             /\ tool_exec_infos'[Len(tool_exec_infos')].signature = NoSignature
             /\ tool_exec_infos'[Len(tool_exec_infos')].cached = FALSE
             /\ executed' = executed
             /\ tool_cache' = tool_cache
             /\ tool_signature_counts' = tool_signature_counts
             /\ pc' = "exec"
        /\ ( /\ pc = "exec"
             /\ Len(tool_results) = Len(tool_calls)
             /\ InvalidCalls # {} )
          => /\ Len(all_tool_calls') = Len(all_tool_calls) + Len(tool_calls)
             /\ \A i \in InvalidCalls :
                  LET entry == all_tool_calls'[Len(all_tool_calls) + i]
                  IN /\ entry.signature = NoSignature
                     /\ entry.cached = FALSE
                     /\ PyGet(entry.result, "success") = PyBool(FALSE)
                     /\ PyHas(entry.result, "error")
             /\ NoSignature \notin DOMAIN tool_signature_counts'
             /\ SumCounts(tool_signature_counts', DOMAIN tool_signature_counts')
                  = SumCounts(tool_signature_counts, DOMAIN tool_signature_counts)
                    + Len(tool_calls) - Cardinality(InvalidCalls)
             /\ tool_cache' = tool_cache
             /\ executed' = executed
             /\ (iteration < max_iterations => pc' = "llm")
      ]_vars

\* A batch whose first call had arguments that are not valid JSON was
\* recorded: its second call was executed by the registry, and the loop
\* made its next LLM call.
C9_Witness ==
    /\ Len(llm_calls) >= 2
    /\ ~llm_calls[2].final
    /\ Len(all_tool_calls) >= 2
    /\ ~ArgsParsed(all_tool_calls[1].args)
    /\ all_tool_calls[1].signature = NoSignature
    /\ PyGet(all_tool_calls[1].result, "success") = PyBool(FALSE)
    /\ all_tool_calls[2].signature # NoSignature
    /\ ~all_tool_calls[2].cached
    /\ Len(executed) >= 1

\* Whether a handled call was run by the registry.
RanRegistry(h) == ~h.cached /\ h.signature # NoSignature

\* C10: the calls of a response are handled one at a time in the order
\* returned (the registry's executions are, in order, the handled calls that
\* were neither cached nor unparsable); and the message list of the LLM call
\* that follows a response with k tool calls is the list of the call before,
\* then any repeat advisories, then the assistant message with the k calls,
\* then exactly k tool messages with the ids of the calls in order, then at
\* most the budget and the finalization messages.
C10_ResultsInCallOrder ==
    /\ pc = "exec" =>
         /\ Len(tool_results) <= Len(tool_calls)
         /\ Len(tool_exec_infos) = Len(tool_results)
         /\ \A i \in DOMAIN tool_exec_infos :
              tool_exec_infos[i].tool_name = tool_calls[i].name
    /\ pc # "raised" =>
         LET ran == SelectSeq(HandledCalls, RanRegistry)
         IN /\ Len(ran) = Len(executed)
            /\ \A e \in DOMAIN executed :
                 /\ executed[e].tool_name = ran[e].name
                 /\ executed[e].kwargs = ran[e].args
    /\ \A n \in DOMAIN llm_calls :
         (AnsweredWithTools(n) /\ n + 1 \in DOMAIN llm_calls) =>
           LET before == llm_calls[n].messages
               after == llm_calls[n + 1].messages
               calls == llm_calls[n].response.tool_calls
               k == Len(calls)
               added == {m \in DOMAIN after : m > Len(before)}
           IN /\ Len(after) > Len(before)
              /\ SubSeq(after, 1, Len(before)) = before
              /\ \E p \in added :
                   /\ after[p].role = "assistant"
                   /\ after[p].tool_calls = calls
                   /\ p + k <= Len(after)
                   /\ \A i \in 1..k :
                        /\ after[p + i].role = "tool"
                        /\ after[p + i].tool_call_id = calls[i].id
                   /\ \A m \in added :
                        /\ m < p => after[m].role = "system"
                        /\ m > p + k => after[m] \in {BudgetHint, FinalizeOrder}
                        /\ after[m].role = "tool" => m \in (p + 1)..(p + k)

\* A response with three calls, one of them unparsable and one served from
\* the cache, was followed by another LLM call.
C10_Witness ==
    \E n \in DOMAIN llm_calls :
        /\ AnsweredWithTools(n)
        /\ n + 1 \in DOMAIN llm_calls
        /\ Len(llm_calls[n].response.tool_calls) = 3
        /\ \E i, j \in DOMAIN all_tool_calls :
             /\ all_tool_calls[i].cached
             /\ all_tool_calls[j].signature = NoSignature

\* Whether a value is a canonical envelope: a dict with a bool `success` and
\* `data` or `error`.
IsCanonicalEnvelope(result) ==
    /\ IsDict(result)
    /\ PyHas(result, "success")
    /\ PyGet(result, "success").t = "bool"
    /\ (PyHas(result, "data") \/ PyHas(result, "error"))

\* C11: what execute_tool returns is a canonical envelope whatever the tool
\* does: the failure envelope of an unregistered name, the failure envelope
\* with str(exc) of a tool that raised, the tool's own envelope unchanged,
\* the failure envelope of a raw {error: str}, and otherwise the raw result
\* wrapped as the data of a success envelope.
C11_CanonicalEnvelope ==
    pc \in {"sanitize", "summarize", "summarized"} =>
      /\ IsCanonicalEnvelope(registry_result)
      /\ call_name \notin RegisteredTools =>
           PyGet(registry_result, "success") = PyBool(FALSE)
      /\ call_name \in RegisteredTools =>
           IF behaviour.kind = "raises"
           THEN registry_result = FailureEnvelope(behaviour.value)
           ELSE IF IsEnvelopeDict(behaviour.value)
           THEN registry_result = behaviour.value
           ELSE IF IsDict(behaviour.value) /\ IsStr(PyGet(behaviour.value, "error"))
           THEN registry_result = FailureEnvelope(PyGet(behaviour.value, "error"))
           ELSE registry_result = SuccessEnvelope(behaviour.value)

\* The length of the minimal envelope of a result that has no error and no
\* image_path: the allowance above max_tool_result_chars.
MinimalAllowance(result) ==
    JsonChars(MinimalResult(PyDict("success" :> PyBool(FALSE)),
                            10 * (JsonChars(result) + 1)))

\* C12: the serialization of a sanitized result has at most
\* max_tool_result_chars characters plus the length of the minimal envelope,
\* whatever the sizes of the data, the error and the image_path of the result.
C12_SanitizedSizeBounded ==
    pc \in {"summarize", "summarized"} =>
      JsonChars(sanitized_result)
        <= max_tool_result_chars + MinimalAllowance(registry_result)

\* C13: the sanitized result has `success` and `error` exactly as the result
\* handed to the sanitizer has them: present with the same value, or absent.
C13_SuccessAndErrorPreserved ==
    pc \in {"summarize", "summarized"} =>
      /\ PyHas(sanitized_result, "success") <=> PyHas(registry_result, "success")
      /\ PyGet(sanitized_result, "success") = PyGet(registry_result, "success")
      /\ PyHas(sanitized_result, "error") <=> PyHas(registry_result, "error")
      /\ PyGet(sanitized_result, "error") = PyGet(registry_result, "error")

\* C14: normalizing a normalized result changes nothing, and the data of a
\* normalized result, and of the sanitized result that goes into the tool
\* message, is no envelope itself.
C14_NormalizeIdempotent ==
    pc \in {"summarize", "summarized"} =>
      /\ _normalize_tool_result(normalized_result) = normalized_result
      /\ ~IsEnvelopeDict(PyGet(normalized_result, "data"))
      /\ ~IsEnvelopeDict(PyGet(sanitized_result, "data"))

\* Whether a message is an assistant message with tool calls whose content
\* is the empty string.
EmptyTextWithToolCalls(message) ==
    /\ message.role = "assistant"
    /\ message.tool_calls # << >>
    /\ message.content = EmptyStr

\* C15: no assistant message with tool calls has the empty string as its
\* content (a response without text is stored with content None): not in the
\* message list, not in the lists the LLM was called with, not in the
\* session history, and so not in the list built from the history.
C15_EmptyContentStoredAsNull ==
    /\ \A m \in DOMAIN messages : ~EmptyTextWithToolCalls(messages[m])
    /\ \A n \in DOMAIN llm_calls : \A m \in DOMAIN llm_calls[n].messages :
          ~EmptyTextWithToolCalls(llm_calls[n].messages[m])
    /\ \A h \in DOMAIN conversation_history :
          ~EmptyTextWithToolCalls(conversation_history[h])
    /\ LET rebuilt == _build_messages(conversation_history)
       IN \A m \in DOMAIN rebuilt : ~EmptyTextWithToolCalls(rebuilt[m])

(***************************************************************************)
(* process_message: skill selection, tools, retrieval.                     *)
(***************************************************************************)

\* The services the turn has called so far.
CalledServices == { service_calls[i].service : i \in DOMAIN service_calls }

\* The turn has got as far as _agent_loop.
LoopEntered ==
    \/ pc \in { "llm", "exec", "final", "done", "raised", "returned" }
    \/ pc = "failed" /\ turn_result.error = "llm_error"

\* The names of a tool_set that are registered, in the tool_set's order.
RegisteredOf(tool_set) == SelectSeq(tool_set, LAMBDA name : name \in registered)

\* The skill the fixed id stands for.
FixedSkill == get_skill_by_id(fixed_skill_id, skill_store)

\* With a fixed skill, neither retrieve_skills nor the filter is called.
FixedSkillBypasses ==
    fixed_skill_id # None => CalledServices \cap { "retrieve_skills", "filter" } = {}

\* With a fixed skill that does not load, the turn never reaches the LLM or
\* a tool, and what it returns is {success: false, error, session_id}.
FixedSkillMissingFails ==
    (fixed_skill_id # None /\ FixedSkill = NoSkill)
        => /\ llm_calls = << >>
           /\ executed = << >>
           /\ pc \in { "embed", "skill", "failed" }
           /\ pc = "failed" => /\ turn_result.success = FALSE
                               /\ DOMAIN turn_result = { "success", "error", "session_id" }

\* C16 as stated: with fixed_skill_id set, process_message never calls
\* retrieve_skills or the skill filter; a skill id that does not load makes
\* the turn return {success: false, error, session_id} without an LLM call
\* or a tool execution; otherwise the tools offered to the LLM are exactly
\* the registered tools named in the skill's tool_set, not the default tools.
C16_FixedSkillToolsOnly ==
    /\ FixedSkillBypasses
    /\ FixedSkillMissingFails
    /\ (fixed_skill_id # None /\ FixedSkill # NoSkill /\ LoopEntered)
          => /\ tools = RegisteredOf(FixedSkill.tool_set)
             /\ \A i \in DOMAIN llm_calls :
                  ~llm_calls[i].final => llm_calls[i].tools = RegisteredOf(FixedSkill.tool_set)

\* C16 amended: as C16, except that the tools offered are the registered
\* tools named in the skill's tool_set when at least one of them is
\* registered, and the default tools when none is (or the tool_set is empty).
C16_FixedSkillMode ==
    /\ FixedSkillBypasses
    /\ FixedSkillMissingFails
    /\ (fixed_skill_id # None /\ FixedSkill # NoSkill /\ LoopEntered)
          => LET named == RegisteredOf(FixedSkill.tool_set)
                 offered == IF named # << >> THEN named
                            ELSE RegisteredOf(<< "database_operation", "search" >>)
             IN /\ tools = offered
                /\ \A i \in DOMAIN llm_calls :
                     ~llm_calls[i].final => llm_calls[i].tools = offered

\* A turn with a fixed skill none of whose tools is registered has called
\* the LLM with the default tools and returned.
C16_Witness ==
    /\ pc = "returned"
    /\ fixed_skill_id = "skill_a"
    /\ FixedSkill # NoSkill
    /\ FixedSkill.tool_set = << "no_such_tool" >>
    /\ llm_calls # << >>
    /\ llm_calls[1].tools = << "database_operation", "search" >>
    /\ turn_result.success

\* The outcomes of the calls made to a service, in the order of the calls.
OutcomesOf(service) ==
    LET RECURSIVE upto(_)
        upto(n) == IF n = 0 THEN << >>
                   ELSE IF service_calls[n].service = service
                        THEN Append(upto(n - 1), service_calls[n].outcome)
                        ELSE upto(n - 1)
    IN upto(Len(service_calls))

\* Automatic selection has been through the gather.
Gathered ==
    /\ fixed_skill_id = None
    /\ OutcomesOf("recall") # << >>

\* C17: in automatic skill selection a failure of recall or of the filter
\* leaves the other's result in use: the filter is called once in the turn;
\* when it raises, filter_result is the default {skill_id: null} and the
\* memories recall returned are still the turn's memories and part of the
\* system prompt; when recall fails, the memories are [] and filter_result is
\* what the one filter call returned.
C17_GatherIsolation ==
    Gathered =>
        LET recalled == OutcomesOf("recall")[1]
            filtered == OutcomesOf("filter")[1]
        IN /\ Len(OutcomesOf("filter")) = 1
           /\ online_memories = (IF recalled = "ok" THEN Memories ELSE << >>)
           /\ filter_result = (IF filtered = "raised" THEN FilterDefault
                               ELSE FilterAnswer(filtered))
           /\ LoopEntered =>
                messages[1].content = _build_system_prompt(SkillPrompt, online_memories)

\* The skill the turn runs with: the one filter_result names, when it loads.
SelectedSkill == get_skill_by_id(filter_result.skill_id, skill_store)

\* C18: when the tool_set of the selected skill names a tool that is not
\* registered, the turn runs with the default tools (database_operation,
\* search) and not with the rest of the tool_set; and every tool offered to
\* the LLM, in any turn, is a registered one.
C18_MissingToolFallsBack ==
    LoopEntered =>
        /\ (/\ filter_result.skill_id # None
            /\ SelectedSkill # NoSkill
            /\ \E i \in DOMAIN SelectedSkill.tool_set :
                  SelectedSkill.tool_set[i] \notin registered)
              => /\ tools = RegisteredOf(<< "database_operation", "search" >>)
                 /\ \A i \in DOMAIN llm_calls :
                      ~llm_calls[i].final =>
                          llm_calls[i].tools = RegisteredOf(<< "database_operation", "search" >>)
        /\ \A i \in DOMAIN tools : tools[i] \in registered
        /\ \A i \in DOMAIN llm_calls :
              \A j \in DOMAIN llm_calls[i].tools : llm_calls[i].tools[j] \in registered

\* Embedding generation raised in this turn.
EmbeddingFailed == OutcomesOf("embedding") = << "raised" >>

\* The recall of this turn failed.
RecallFailed == OutcomesOf("recall") = << "failed" >>

\* C19: a turn in which embedding generation or memory recall failed, with
\* or without a fixed skill, is not ended by that failure: if it returns a
\* failure at all, it does so from the agent loop; a failed recall leaves the
\* turn with no memories, and a turn that returned after such a failure
\* returned success.
C19_RetrievalFailureContinues ==
    (EmbeddingFailed \/ RecallFailed) =>
        /\ pc = "failed" => LoopEntered
        /\ RecallFailed => online_memories = << >>
        /\ pc = "returned" => turn_result.success

(***************************************************************************)
(* SessionManager.                                                         *)
(***************************************************************************)

\* uuid.UUID(text): the 128-bit value a str stands for, in any of its
\* written forms; 0 for a text that is no UUID (ValueError).
ParsedValue(key) == IF key.form = "invalid" THEN 0 ELSE key.value

\* The sessions the manager holds.
ExistingSessions == { _sessions[k] : k \in DOMAIN _sessions }

\* C20: get_session takes a UUID or a str.  Called with a UUID it returns
\* the session stored under it, if any.  Called with a str it returns, for
\* every existing session, that session if and only if the str parses to the
\* 128-bit value of the session's id, and nothing when no session matches.
C20_GetSessionByString ==
    last_call.method = "get_session" =>
        LET key == last_call.argument
            wanted == IF key.type = "str" THEN ParsedValue(key) ELSE key.value
        IN /\ \A session \in ExistingSessions :
                (last_call.returned = session) <=> (session.session_id.value = wanted)
           /\ (\A session \in ExistingSessions : session.session_id.value # wanted)
                => last_call.returned = NoSession

(***************************************************************************)
(* SkillService.                                                           *)
(***************************************************************************)

\* The filesystem holds a loadable, enabled skill of that id.
FilesystemOffers(skill_id) ==
    enable_filesystem /\ Folder(skill_id, "enabled") \in filesystem

\* The database holds a skill of that id.
DatabaseOffers(skill_id) == DatabaseSkill(skill_id) \in database

\* C21: get_skill_by_id returns the filesystem copy whenever the filesystem
\* holds a loadable, enabled skill of that id, and otherwise the database
\* copy when there is one; a disabled folder does not hide the database's
\* skill; the result is None only when neither source offers the skill.
C21_FilesystemThenDatabase ==
    skill_lookup.outcome # "none" =>
        LET skill_id == skill_lookup.skill_id
        IN /\ FilesystemOffers(skill_id)
                => /\ skill_lookup.outcome = "returned"
                   /\ skill_lookup.skill = FolderSkill(skill_id)
           /\ (~FilesystemOffers(skill_id) /\ DatabaseOffers(skill_id))
                => /\ skill_lookup.outcome = "returned"
                   /\ skill_lookup.skill = DatabaseSkill(skill_id)
           /\ (skill_lookup.outcome = "returned" /\ skill_lookup.skill = NoSkill)
                => (~FilesystemOffers(skill_id) /\ ~DatabaseOffers(skill_id))

(***************************************************************************)
(* The CAD tools.                                                          *)
(***************************************************************************)

\* C22: for the same bbox and no type or layer filter, the total_count of
\* inspect_region's entity_summary equals extract_cad_entities' total_count
\* on the same drawing, whatever the model space holds: block inserts and
\* their virtual entities, entities without a box.
C22_CountsAgree ==
    (extract_result.success /\ inspect_result.success)
        => inspect_result.total_count = extract_result.total_count

\* Both tools have answered for a drawing with a block insert whose virtual
\* line lies in the region and a point, which has no box.
C22_Witness ==
    /\ extract_result.success
    /\ inspect_result.success
    /\ msp = << Insert(<< Line(0, 1, 1, 0), Point(0, 0) >>), Point(1, 1) >>
    /\ bbox = Bbox(0, 0, 1, 1)
    /\ inspect_result.total_count = 1

\* On which side of the line through a segment a point lies: the sign of
\* the cross product.
SideOf(entity, x, y) ==
    (entity.end[1] - entity.start[1]) * (y - entity.start[2])
    - (entity.end[2] - entity.start[2]) * (x - entity.start[1])

\* The segment (or the point) of an entity meets the closed rectangle: their
\* extents overlap and the rectangle's corners are not all strictly on one
\* side of the segment's line.
SegmentMeets(entity, rect) ==
    /\ Min2(entity.start[1], entity.end[1]) <= rect[3]
    /\ Max2(entity.start[1], entity.end[1]) >= rect[1]
    /\ Min2(entity.start[2], entity.end[2]) <= rect[4]
    /\ Max2(entity.start[2], entity.end[2]) >= rect[2]
    /\ LET corners == { << rect[1], rect[2] >>, << rect[1], rect[4] >>,
                        << rect[3], rect[2] >>, << rect[3], rect[4] >> }
       IN /\ \E c \in corners : SideOf(entity, c[1], c[2]) >= 0
          /\ \E c \in corners : SideOf(entity, c[1], c[2]) <= 0

\* The geometry of an entity meets the rectangle of the bbox, edges and
\* touching boundaries included; a block insert is where its entities are.
GeometryIntersects(entity, b) ==
    IF entity.type = "INSERT"
    THEN \E i \in DOMAIN entity.virtual : SegmentMeets(entity.virtual[i], _bbox_tuple(b))
    ELSE SegmentMeets(entity, _bbox_tuple(b))

\* C23: extract_cad_entities(bbox=B) returns every entity of the drawing
\* whose geometry intersects B, returns no entity that lies fully outside B,
\* and counts in total_count the intersecting entities only.
C23_ExtractExactForBbox ==
    extract_result.success =>
        LET all == _iter_entities_with_virtual(msp)
            returned == { extract_result.entities[i] : i \in DOMAIN extract_result.entities }
        IN /\ \A i \in DOMAIN all : GeometryIntersects(all[i], bbox) => all[i] \in returned
           /\ \A entity \in returned : GeometryIntersects(entity, bbox)
           /\ extract_result.total_count =
                Cardinality({ i \in DOMAIN all : GeometryIntersects(all[i], bbox) })

\* Below this the dense cluster of a drawing lies.
ClusterLimit == 100000

\* The boxes of a drawing that are extreme outliers: beyond the cluster's
\* limit on some axis.
Outliers(bs) == { i \in DOMAIN bs : bs[i][3] >= ClusterLimit \/ bs[i][4] >= ClusterLimit }

\* C24: a drawing of at least 20 boxes with at least one extreme outlier
\* has boxes dropped by the filter (used_entity_count < raw_entity_count)
\* and merged max_x and max_y within the dense cluster; and whenever fewer
\* than max(10, 0.2 n) boxes lie within the fences, all the boxes are used.
C24_OutliersFiltered ==
    bounds_result.success =>
        /\ (Len(boxes) >= 20 /\ Outliers(boxes) # {})
              => /\ bounds_result.used_entity_count < bounds_result.raw_entity_count
                 /\ bounds_result.max_x < ClusterLimit
                 /\ bounds_result.max_y < ClusterLimit
        /\ (Len(boxes) >= 20
            /\ 5 * Len(WithinFences(boxes)) < Max2(50, Len(boxes)))
              => bounds_result.used_entity_count = bounds_result.raw_entity_count

\* The tool calls of the turn that were handed to the registry and have no
\* recorded result: neither in the batch being executed nor in the calls
\* recorded by earlier batches.
RecordedExecutions ==
    Len(SelectSeq(all_tool_calls, LAMBDA call : ~call.cached /\ call.signature # NoSignature))
      + Len(SelectSeq(tool_exec_infos, LAMBDA info : ~info.cached /\ info.signature # NoSignature))

\* C25: a cancellation raised while a tool executes is a failure of that
\* call: every call handed to the registry has a recorded result, and the
\* loop goes on instead of the turn ending with the cancellation.
C25_CancellationIsToolFailure ==
    /\ pc # "cancelled"
    /\ pc = "exec" => RecordedExecutions = Len(executed)

\* The data of an envelope, plain or nested once.
EnvelopeData(result) ==
    IF IsEnvelopeDict(PyGet(result, "data")) THEN PyGet(PyGet(result, "data"), "data")
    ELSE PyGet(result, "data")

\* The envelope handed to _sanitize_tool_result holds a non-empty
\* image_base64 string and more than 20 texts.
HoldsImageAndTexts(result) ==
    /\ IsEnvelopeDict(result)
    /\ ~IsEnvelopeDict(EnvelopeData(result))
    /\ IsStr(PyGet(EnvelopeData(result), "image_base64"))
    /\ Truthy(PyGet(EnvelopeData(result), "image_base64"))
    /\ IsList(PyGet(PyGet(EnvelopeData(result), "key_content"), "texts"))
    /\ PyGet(PyGet(EnvelopeData(result), "key_content"), "texts").len > 20

\* The data of the result is the data of the envelope, trimmed: no image,
\* its length recorded, the first 20 texts and the number dropped.
ImageAndTextsTrimmed(result, sanitized) ==
    LET before == EnvelopeData(result)
        after == PyGet(sanitized, "data")
    IN /\ ~PyHas(after, "image_base64")
       /\ PyGet(after, "image_base64_omitted") = PyBool(TRUE)
       /\ PyGet(after, "image_base64_chars") = PyInt(PyGet(before, "image_base64").chars)
       /\ PyGet(PyGet(after, "key_content"), "texts")
            = PyList(20, PyGet(PyGet(before, "key_content"), "texts").each)
       /\ PyGet(PyGet(after, "key_content"), "texts_truncated")
            = PyInt(PyGet(PyGet(before, "key_content"), "texts").len - 20)

\* The sanitizer has run on the result of the registry.
Sanitized == pc \in { "summarize", "summarized" }

\* The trimmed envelope, or its compact form, is within
\* max_tool_result_chars: the result is not the minimal envelope.
TrimmedFits(result) ==
    LET normalized == _normalize_tool_result(result)
        safe == PySet(normalized, "data", SanitizeData(PyGet(normalized, "data")))
    IN /\ Serializable(safe)
       /\ \/ JsonChars(safe) <= max_tool_result_chars
          \/ JsonChars(CompactResult(safe, JsonChars(safe))) <= max_tool_result_chars

\* C26 as stated: on every envelope (plain or nested once) whose data holds
\* a non-empty image_base64 string and n > 20 texts, _sanitize_tool_result
\* returns data without image_base64, with image_base64_omitted = true,
\* image_base64_chars the length of the string, 20 texts and
\* texts_truncated = n - 20.
C26_ImageAndTextsTrimmedAlways ==
    (Sanitized /\ HoldsImageAndTexts(registry_result))
        => ImageAndTextsTrimmed(registry_result, sanitized_result)

\* C26: the same, for the envelopes whose trimmed or compact form is
\* within max_tool_result_chars.
C26_ImageAndTextsTrimmed ==
    (Sanitized /\ HoldsImageAndTexts(registry_result) /\ TrimmedFits(registry_result))
        => ImageAndTextsTrimmed(registry_result, sanitized_result)

\* A nested envelope with image and texts has been trimmed to its compact
\* form.
C26_Witness ==
    /\ Sanitized
    /\ HoldsImageAndTexts(registry_result)
    /\ TrimmedFits(registry_result)
    /\ IsEnvelopeDict(PyGet(registry_result, "data"))
    /\ PyHas(sanitized_result, "_truncated")
    /\ ImageAndTextsTrimmed(registry_result, sanitized_result)

\* The calls of the turn so far, in order: those recorded by the batches
\* before, then those of the batch being executed.
TurnCalls ==
    [i \in DOMAIN all_tool_calls |->
        [cached |-> all_tool_calls[i].cached, signature |-> all_tool_calls[i].signature]]
    \o (IF pc = "exec"
        THEN [i \in DOMAIN tool_exec_infos |->
                [cached |-> tool_exec_infos[i].cached,
                 signature |-> tool_exec_infos[i].signature]]
        ELSE << >>)

\* The signatures of the tools executed in the turn.
ExecutedSignatures ==
    { _build_tool_signature(executed[i].tool_name, executed[i].kwargs) : i \in DOMAIN executed }

\* An earlier turn of the session has executed tools.
EarlierTurnExecuted ==
    /\ turn > 1
    /\ \E i \in DOMAIN conversation_history :
          /\ conversation_history[i].role = "tool"
          /\ \E j \in DOMAIN conversation_history :
                j > i /\ conversation_history[j].role = "user"

\* C27: the tool cache and the repeat counts belong to one invocation of
\* _agent_loop: the cache holds only results of tools executed in this
\* turn, the counts count only the recorded calls of this turn, and the
\* first call with a signature in a turn executes the tool (cached = false).
C27_CacheScopedToTurn ==
    /\ DOMAIN tool_cache \subseteq ExecutedSignatures
    /\ \A sig \in DOMAIN tool_signature_counts :
          tool_signature_counts[sig]
            = Len(SelectSeq(all_tool_calls, LAMBDA call : call.signature = sig))
    /\ \A i \in DOMAIN TurnCalls :
          (\A j \in 1..(i - 1) : TurnCalls[j].signature # TurnCalls[i].signature)
              => ~TurnCalls[i].cached

\* In the second turn a tool is executed with the signature an earlier turn
\* has executed and cached.
C27_Witness ==
    /\ EarlierTurnExecuted
    /\ \E i \in DOMAIN tool_exec_infos :
          /\ ~tool_exec_infos[i].cached
          /\ tool_exec_infos[i].signature = _build_tool_signature("inspect_region", json_loads(ArgsYX))
          /\ tool_exec_infos[i].signature \in ExecutedSignatures

\* The result of the i-th call of the batch being executed is a failure
\* envelope.
FailedResult(i) == ~Truthy(PyGet(tool_results[i], "success"))

\* C29: failed results are cached like successful ones: the result of
\* every call with a signature, failed or not, is the one the cache holds
\* for the signature, a later call with the signature is served from the
\* cache (cached = true) with the same result, and no tool is executed
\* twice with the same signature in a turn.
C29_FailuresCached ==
    /\ \A i \in DOMAIN tool_exec_infos :
          tool_exec_infos[i].signature # NoSignature
            => /\ i \in DOMAIN tool_results
               /\ CacheHit(tool_cache, tool_exec_infos[i].signature)
               /\ tool_results[i] = tool_cache[tool_exec_infos[i].signature]
    /\ \A i \in DOMAIN TurnCalls : \A j \in DOMAIN TurnCalls :
          (i < j /\ TurnCalls[i].signature = TurnCalls[j].signature
             /\ TurnCalls[j].signature # NoSignature)
            => TurnCalls[j].cached
    /\ \A i \in DOMAIN executed : \A j \in DOMAIN executed :
          i # j => _build_tool_signature(executed[i].tool_name, executed[i].kwargs)
                     # _build_tool_signature(executed[j].tool_name, executed[j].kwargs)

\* A tool has failed and a later call of the batch with the same signature
\* got the failure from the cache, the tool having run once.
C29_Witness ==
    \E i \in DOMAIN tool_exec_infos : \E j \in DOMAIN tool_exec_infos :
       /\ i < j
       /\ tool_exec_infos[i].signature = tool_exec_infos[j].signature
       /\ ~tool_exec_infos[i].cached
       /\ FailedResult(i)
       /\ tool_exec_infos[j].cached
       /\ tool_results[j] = tool_results[i]
       /\ Len(executed) = 1

\* C28: on every turn of an agent the LLM client the loop runs on is the
\* one made from the model_config of the skill selected for the turn.
C28_ClientFollowsSkill ==
    \A i \in DOMAIN client_log :
       client_log[i].entered
         => client_log[i].client = create_llm_client(client_log[i].skill_config)

\* The log is a sequence of whole blocks: from each block's first line on
\* come all the lines of that block, in order, before any other line.
RECURSIVE WholeBlocks(_)
WholeBlocks(log) ==
    IF log = << >> THEN TRUE
    ELSE LET block == TraceBlock(log[1].task, tasks[log[1].task].traces)
         IN /\ Len(log) >= Len(block)
            /\ SubSeq(log, 1, Len(block)) = block
            /\ WholeBlocks(SubSeq(log, Len(block) + 1, Len(log)))

\* The number of blocks of a turn that start in the log.
BlocksOf(t) == Len(SelectSeq(trace_log, LAMBDA l : l.task = t /\ l.line = 1))

\* C30: with several turns on one event loop the trace log holds whole
\* blocks only, never lines of two turns interleaved, and the block of
\* every turn whose _append_detailed_trace_log has returned the path is in
\* the log exactly once, whatever the other turns have appended since; a
\* turn that has not appended has no line in the log.
C30_TraceBlocksContiguous ==
    /\ WholeBlocks(trace_log)
    /\ \A t \in DOMAIN tasks :
          BlocksOf(t) = IF tasks[t].pc = "done" /\ tasks[t].returned # None THEN 1 ELSE 0

\* Two turns whose loops ran interleaved have both appended their blocks,
\* the one that started its loop later first.
C30_Witness ==
    /\ tasks # << >>
    /\ \A t \in DOMAIN tasks : tasks[t].pc = "done" /\ tasks[t].returned # None
    /\ trace_log # << >>
    /\ trace_log[1].task = 2
    /\ tasks[1].traces # tasks[2].traces

====
